---- MODULE Spec2Model ----
(***************************************************************************)
(* paper-agent: the deduplicator (main.py), the relevance filters of the   *)
(* scrapers, the importance scorer, the top-N enrichment selector and the  *)
(* batch insight aggregator (ai_processor.py), modelled as state machines. *)
(*                                                                         *)
(* Conventions                                                             *)
(*  - a Python str is a sequence of one-character strings, so lower(),     *)
(*    slicing, strip() and the substring test "kw in text" are computed;   *)
(*  - a Python dict is a function whose DOMAIN is the set of keys present, *)
(*    so dict equality (==) is equality of functions and dict.get(k, d)    *)
(*    falls back to d when k is absent;                                    *)
(*  - Python None is the value None below (ai_summary is None or a         *)
(*    non-empty stripped text, so the empty sequence is free to stand for  *)
(*    None);                                                               *)
(*  - the papers of a batch are objects of a heap, a list holds references *)
(*    (indices of the heap), and mutation through one reference is seen    *)
(*    through every other;                                                 *)
(*  - scores are kept in half units (importance 2.5 is 5): every term of   *)
(*    the score is a multiple of 0.5.                                      *)
(***************************************************************************)
EXTENDS Integers, Sequences, FiniteSets, TLC

VARIABLES
  \* ---- _deduplicate (main.py) ----
  d_papers,       \* the list given to _deduplicate
  d_i,            \* position of the for loop (1-based; Len+1 when finished)
  seen,           \* the set of keys seen
  out,            \* the output list
  d_pass,         \* 1, or 2 when _deduplicate runs on what it returned
  d_first,        \* in pass 2, what pass 1 returned
  \* ---- PaperProcessor (ai_processor.py) ----
  heap,           \* the paper objects: reference -> dict
  max_ai_papers,  \* self.max_ai_papers
  client,         \* the state of the collaborator behind self.client
  hash_order,     \* list of tags -> the order in which list(set(tags)) lists it
  pc,             \* position of the caller / of process_papers
  papers,         \* the list given to process_papers (references)
  papers_sorted,  \* process_papers: papers_sorted
  top_ai,         \* process_papers: top_ai
  i,              \* process_papers: position of the for loop (1-based)
  processed,      \* process_papers: processed
  insights,       \* what generate_batch_insights returned
  \* ---- observation of one run (history, read by no action guard) ----
  attempted,      \* references handed to _process_single_paper
  skipped,        \* references that took the "not in top_ai" branch
  calls,          \* reference -> network calls issued for it in this run
  failed,         \* references whose call returned None in this run
  last_event,     \* "none", "call" or "sleep": the last call or sleep
  narrative_calls, \* network calls issued by generate_batch_insights
  \* ---- _score_importance applied to one paper ----
  s_paper,        \* the paper given to _score_importance
  s_score,        \* what it returned (half units), 0 before the call
  s_pc,           \* "start" or "scored"
  \* ---- _filter_relevant (the scrapers) ----
  f_source,       \* whose filter runs: "arXiv", "NBER", "SSRN", "NEP" or "RSS"
  f_papers,       \* the list given to _filter_relevant
  f_i,            \* position of the for loop (1-based; Len+1 when finished)
  relevant,       \* the list relevant
  f_out,          \* what the filter returned
  f_pc,           \* "loop" or "returned"
  \* ---- run_agent (main.py) ----
  dry_run,        \* the argument dry_run
  ssrn_enabled,   \* SSRN_CONFIG.get("enabled", True)
  r_pc,           \* position of run_agent
  all_papers,     \* the list all_papers (dicts)
  fetched,        \* history: per source block done, what its fetcher did
  report,         \* what generate_html_report was given; None before
  \* ---- GeminiProcessor.process_papers: the selection (gemini_processor.py) ----
  g_papers,       \* the list papers given to process_papers
  g_sorted,       \* sorted_papers: positions of g_papers
  g_i,            \* position of the walk over sorted_papers (1-based)
  selected_ids,   \* selected_ids: the objects selected, as positions of g_papers
  topic_counts    \* topic_counts

dedupVars == <<d_papers, d_i, seen, out, d_pass, d_first>>
procVars  == <<heap, max_ai_papers, client, hash_order, pc, papers, papers_sorted, top_ai, i,
               processed, insights>>
obsVars   == <<attempted, skipped, calls, failed, last_event, narrative_calls>>
scoreVars  == <<s_paper, s_score, s_pc>>
filterVars == <<f_source, f_papers, f_i, relevant, f_out, f_pc>>
runVars    == <<dry_run, ssrn_enabled, r_pc, all_papers, fetched, report>>
selVars    == <<g_papers, g_sorted, g_i, selected_ids, topic_counts>>
vars      == <<dedupVars, procVars, obsVars, scoreVars, filterVars, runVars, selVars>>

---------------------------------------------------------------------------
(* Bounds of the model *)

\* number of paper objects on the heap
NumPapers == 2
\* largest value of the max_ai_papers knob explored
MaxAiCap == 2
\* longest list given to _deduplicate
MaxDedupLen == 3
\* largest relevance_score of a paper given to _score_importance on its own
MaxRelevance == 2
\* longest list given to _filter_relevant
MaxFilterLen == 2
\* longest list given to generate_batch_insights on its own
MaxInsightsLen == 6
\* longest list a fetcher returns to run_agent
MaxFetched == 30
\* longest list given to GeminiProcessor.process_papers
MaxSelectLen == 4

(* Program constants *)

\* title[:60] in _deduplicate
KeyLen == 60
\* len(abstract) < 50 in _process_single_paper
MinAbstractLen == 50
\* sorted_papers[:5] in generate_batch_insights
TopPapersLen == 5
\* REPORT_CONFIG["max_papers_in_report"]
MaxPapersInReport == 30
\* nber_papers[:30] and ssrn_papers[:30] in run_agent
DetailsLen == 30
\* sorted_papers[:30] in generate_html_report
CardsLen == 30
\* topic_counts.get(topic, 0) < 2 in GeminiProcessor.process_papers
PerTopic == 2

---------------------------------------------------------------------------
(* Python str and dict *)

None == <<>>

Min(a, b) == IF a <= b THEN a ELSE b

UpperCase == <<"A","B","C","D","E","F","G","H","I","J","K","L","M",
               "N","O","P","Q","R","S","T","U","V","W","X","Y","Z">>
LowerCase == <<"a","b","c","d","e","f","g","h","i","j","k","l","m",
               "n","o","p","q","r","s","t","u","v","w","x","y","z">>

\* the lower-case letter of each upper-case letter
ToLower == [c \in {UpperCase[k] : k \in 1..26} |->
              LowerCase[CHOOSE k \in 1..26 : UpperCase[k] = c]]

\* str.lower() on one character
LowerChar(c) == IF c \in DOMAIN ToLower THEN ToLower[c] ELSE c

\* str.lower(); appending the empty sequence leaves the value unchanged and
\* has TLC hold it as a tuple
Lower(s) == [k \in 1..Len(s) |-> LowerChar(s[k])] \o <<>>

\* s[:n]
Prefix(s, n) == SubSeq(s, 1, Min(n, Len(s)))

\* "kw in text" (substring containment): kw starts at some position of text
Contains(kw, text) ==
  \/ kw = <<>>
  \/ \E k \in {j \in 1..(Len(text) - Len(kw) + 1) : text[j] = kw[1]} :
        SubSeq(text, k, k + Len(kw) - 1) = kw

\* s.startswith(prefix)
StartsWith(s, prefix) ==
  /\ Len(prefix) <= Len(s)
  /\ \A j \in 1..Len(prefix) : s[j] = prefix[j]

IsSpace(c) == c \in {" ", "\n", "\t"}

\* str.strip()
Strip(s) ==
  IF \A k \in 1..Len(s) : IsSpace(s[k])
    THEN <<>>
    ELSE LET first == CHOOSE k \in 1..Len(s) :
                        /\ ~IsSpace(s[k])
                        /\ \A j \in 1..(k - 1) : IsSpace(s[j])
             last  == CHOOSE k \in 1..Len(s) :
                        /\ ~IsSpace(s[k])
                        /\ \A j \in (k + 1)..Len(s) : IsSpace(s[j])
         IN  SubSeq(s, first, last)

\* n copies of character c
Pad(n, c) == [k \in 1..n |-> c]

\* k in d
Has(d, k) == k \in DOMAIN d

\* d.get(k, default)
Get(d, k, default) == IF Has(d, k) THEN d[k] ELSE default

\* d[k] = v
Put(d, k, v) == [q \in (DOMAIN d) \cup {k} |-> IF q = k THEN v ELSE d[q]]

\* the elements of a list
Range(s) == {s[k] : k \in 1..Len(s)}

\* "v in lst" for a list of values
InSeq(v, s) == \E k \in 1..Len(s) : s[k] = v

---------------------------------------------------------------------------
(* _deduplicate (main.py) *)

\* (mutant) the key without lower(): titles differing in case are kept apart
DedupKey_NoLower(p) == Prefix(Get(p, "title", <<>>), KeyLen)

\* key = p.get("title", "").lower()[:60]
DedupKey(p) == Prefix(Lower(Get(p, "title", <<>>)), KeyLen)

\* titles given to _deduplicate: empty, differing in case only, differing
\* only after the first 60 characters, and of exactly 60 characters
DedupTitles ==
  { <<>>,
    <<"A","b">>,
    <<"a","B">>,
    <<"b">>,
    Pad(KeyLen - 2, "x") \o <<"a","b","C">>,
    Pad(KeyLen - 2, "x") \o <<"a","b","d">>,
    Pad(KeyLen - 2, "x") \o <<"a","c">> }

\* the dicts given to _deduplicate; one of them has no "title" key
DedupPapers ==
  { [title |-> t, source |-> s] : t \in DedupTitles, s \in {"NBER", "arXiv"} }
    \cup { [source |-> "SSRN"] }

DedupInputs ==
  UNION { [1..n -> DedupPapers] : n \in 0..MaxDedupLen }

\* seen, out = set(), []
DedupStart(ps) ==
  /\ d_papers = ps
  /\ d_i = 1
  /\ seen = {}
  /\ out = <<>>
  /\ d_pass = 1
  /\ d_first = <<>>

\* (mutant) out.append(p) in an else branch: a paper is kept when its key is
\* empty or was seen
DedupStep_AppendInElse ==
  /\ d_i <= Len(d_papers)
  /\ LET p   == d_papers[d_i]
         key == DedupKey(p)
     IN  IF key # <<>> /\ key \notin seen
           THEN /\ seen' = seen \cup {key}
                /\ UNCHANGED out
           ELSE /\ out' = Append(out, p)
                /\ UNCHANGED seen
  /\ d_i' = d_i + 1
  /\ UNCHANGED <<d_papers, d_pass, d_first>>
  /\ UNCHANGED <<procVars, obsVars, scoreVars, filterVars, runVars, selVars>>

\* one iteration of "for p in papers"
DedupStep ==
  /\ d_i <= Len(d_papers)
  /\ LET p   == d_papers[d_i]
         key == DedupKey(p)
     IN  IF key # <<>> /\ key \notin seen
           THEN /\ seen' = seen \cup {key}
                /\ out' = Append(out, p)
           ELSE UNCHANGED <<seen, out>>
  /\ d_i' = d_i + 1
  /\ UNCHANGED <<d_papers, d_pass, d_first>>
  /\ UNCHANGED <<procVars, obsVars, scoreVars, filterVars, runVars, selVars>>

\* "return out" has been reached
DedupDone == d_i > Len(d_papers)

\* _deduplicate(_deduplicate(L)): the list returned is given to _deduplicate
DedupAgain ==
  /\ DedupDone
  /\ d_pass = 1
  /\ d_papers' = out
  /\ d_first' = out
  /\ d_pass' = 2
  /\ d_i' = 1
  /\ seen' = {}
  /\ out' = <<>>
  /\ UNCHANGED <<procVars, obsVars, scoreVars, filterVars, runVars, selVars>>

---------------------------------------------------------------------------
(* Importance scorer and tag extraction (ai_processor.py) *)

\* kw_boosts of _score_importance, in dict order; boosts in half units
kw_boosts ==
  << [kw |-> <<"q","u","a","n","t","i","l","e">>, boost |-> 4],
     [kw |-> <<"t","r","a","n","s","f","o","r","m","e","r">>, boost |-> 4],
     [kw |-> <<"r","e","i","n","f","o","r","c","e","m","e","n","t"," ","l","e","a","r","n","i","n","g">>, boost |-> 5],
     [kw |-> <<"s","e","n","t","i","m","e","n","t">>, boost |-> 3],
     [kw |-> <<"a","t","t","e","n","t","i","o","n"," ","m","e","c","h","a","n","i","s","m">>, boost |-> 4],
     [kw |-> <<"d","i","a","g","n","o","s","t","i","c">>, boost |-> 3],
     [kw |-> <<"g","e","n","d","e","r">>, boost |-> 3],
     [kw |-> <<"f","e","m","a","l","e"," ","c","e","o">>, boost |-> 4],
     [kw |-> <<"c","o","r","p","o","r","a","t","e"," ","g","o","v","e","r","n","a","n","c","e">>, boost |-> 3],
     [kw |-> <<"l","l","m">>, boost |-> 4],
     [kw |-> <<"g","p","t">>, boost |-> 3],
     [kw |-> <<"f","a","c","t","o","r"," ","m","o","d","e","l">>, boost |-> 3],
     [kw |-> <<"a","n","o","m","a","l","y">>, boost |-> 3],
     [kw |-> <<"d","e","e","p"," ","l","e","a","r","n","i","n","g">>, boost |-> 3],
     [kw |-> <<"n","e","u","r","a","l"," ","n","e","t","w","o","r","k">>, boost |-> 3] >>
\* methods of _extract_tags, in dict order
methods ==
  << [tag |-> "machine_learning", keywords |->
        << <<"m","a","c","h","i","n","e"," ","l","e","a","r","n","i","n","g">>,
           <<"n","e","u","r","a","l"," ","n","e","t","w","o","r","k">>,
           <<"d","e","e","p"," ","l","e","a","r","n","i","n","g">>,
           <<"t","r","a","n","s","f","o","r","m","e","r">>,
           <<"B","E","R","T">>,
           <<"G","P","T">>,
           <<"L","L","M">>,
           <<"g","r","a","d","i","e","n","t"," ","b","o","o","s","t","i","n","g">>,
           <<"r","a","n","d","o","m"," ","f","o","r","e","s","t">>,
           <<"X","G","B","o","o","s","t">>,
           <<"r","e","i","n","f","o","r","c","e","m","e","n","t"," ","l","e","a","r","n","i","n","g">> >>],
     [tag |-> "empirical", keywords |->
        << <<"r","e","g","r","e","s","s","i","o","n">>,
           <<"p","a","n","e","l"," ","d","a","t","a">>,
           <<"f","i","x","e","d"," ","e","f","f","e","c","t","s">>,
           <<"O","L","S">>,
           <<"I","V">>,
           <<"i","n","s","t","r","u","m","e","n","t","a","l"," ","v","a","r","i","a","b","l","e">>,
           <<"D","I","D">>,
           <<"p","r","o","p","e","n","s","i","t","y"," ","s","c","o","r","e">> >>],
     [tag |-> "theoretical", keywords |->
        << <<"m","o","d","e","l">>,
           <<"e","q","u","i","l","i","b","r","i","u","m">>,
           <<"t","h","e","o","r","e","m">>,
           <<"p","r","o","o","f">>,
           <<"p","r","o","p","o","s","i","t","i","o","n">> >>],
     [tag |-> "text_analysis", keywords |->
        << <<"N","L","P">>,
           <<"t","e","x","t"," ","a","n","a","l","y","s","i","s">>,
           <<"s","e","n","t","i","m","e","n","t">>,
           <<"l","a","n","g","u","a","g","e"," ","m","o","d","e","l">>,
           <<"t","o","p","i","c"," ","m","o","d","e","l">>,
           <<"w","o","r","d"," ","e","m","b","e","d","d","i","n","g">> >>],
     [tag |-> "high_frequency", keywords |->
        << <<"h","i","g","h"," ","f","r","e","q","u","e","n","c","y">>,
           <<"i","n","t","r","a","d","a","y">>,
           <<"o","r","d","e","r"," ","f","l","o","w">>,
           <<"m","i","c","r","o","s","t","r","u","c","t","u","r","e">> >>],
     [tag |-> "portfolio_methods", keywords |->
        << <<"p","o","r","t","f","o","l","i","o"," ","o","p","t","i","m","i","z","a","t","i","o","n">>,
           <<"m","e","a","n","-","v","a","r","i","a","n","c","e">>,
           <<"f","a","c","t","o","r">>,
           <<"b","a","c","k","t","e","s","t">>,
           <<"S","h","a","r","p","e">>,
           <<"a","l","p","h","a">>,
           <<"r","i","s","k"," ","p","a","r","i","t","y">> >>],
     [tag |-> "causal_inference", keywords |->
        << <<"c","a","u","s","a","l">>,
           <<"i","n","s","t","r","u","m","e","n","t","a","l"," ","v","a","r","i","a","b","l","e">>,
           <<"r","e","g","r","e","s","s","i","o","n"," ","d","i","s","c","o","n","t","i","n","u","i","t","y">>,
           <<"d","i","f","f","e","r","e","n","c","e","-","i","n","-","d","i","f","f","e","r","e","n","c","e","s">>,
           <<"n","a","t","u","r","a","l"," ","e","x","p","e","r","i","m","e","n","t">> >>] >>
\* paper.get("source") == "arXiv" and any(str(c).startswith("q-fin") ...)
QFinPrefix == <<"q","-","f","i","n">>

\* (mutant) the keyword loop without "break": every keyword found adds its boost
RECURSIVE BoostsFrom(_, _)
BoostsFrom(full_text, k) ==
  IF k > Len(kw_boosts) THEN 0
  ELSE (IF Contains(kw_boosts[k].kw, full_text) THEN kw_boosts[k].boost ELSE 0)
         + BoostsFrom(full_text, k + 1)
KeywordBoost_NoBreak(full_text) == BoostsFrom(full_text, 1)

\* the first keyword of kw_boosts found in full_text adds its boost ("break")
KeywordBoost(full_text) ==
  LET hits == {k \in 1..Len(kw_boosts) : Contains(kw_boosts[k].kw, full_text)}
  IN  IF hits = {} THEN 0
      ELSE kw_boosts[CHOOSE k \in hits : \A h \in hits : k <= h].boost

\* round(score, 2) on a score held in half units: the value in hundredths is
\* score2 * 50, an integer, so rounding to two decimals leaves it unchanged
Round2(score2) == (score2 * 50) \div 50

\* (mutant) the five rules chained with elif: the first that qualifies
\* excludes the others
_score_importance_Elif(paper) ==
  LET topics    == Range(Get(paper, "matched_topics", <<>>))
      tags      == Range(Get(paper, "ai_tags", <<>>))
      full_text == Lower(Get(paper, "title", <<>>)) \o <<" ">>
                     \o Lower(Get(paper, "abstract", <<>>))
      base      == Get(paper, "relevance_score", 0) * 3
      rule == IF "nlp_finance" \in topics /\ "asset_pricing" \in topics THEN 6
              ELSE IF "behavioral_finance" \in topics /\ "machine_learning" \in tags THEN 4
              ELSE IF "tail_risk" \in topics /\ "behavioral_finance" \in topics THEN 5
              ELSE IF "quant_trading" \in topics
                       /\ ("machine_learning" \in tags \/ "nlp_finance" \in topics) THEN 5
              ELSE IF "gender_finance" \in topics /\ "corporate_finance" \in topics THEN 4
              ELSE 0
      src == IF Get(paper, "source", "?") = "arXiv"
                  /\ \E c \in Range(Get(paper, "categories", <<>>)) :
                        StartsWith(c, QFinPrefix)
              THEN 2 ELSE 0
  IN  Round2(base + rule + KeywordBoost(full_text) + src)

\* (mutant) the base term subtracted instead of added
_score_importance_MinusBase(paper) ==
  LET topics    == Range(Get(paper, "matched_topics", <<>>))
      tags      == Range(Get(paper, "ai_tags", <<>>))
      full_text == Lower(Get(paper, "title", <<>>)) \o <<" ">>
                     \o Lower(Get(paper, "abstract", <<>>))
      base      == Get(paper, "relevance_score", 0) * 3
      r1 == IF "nlp_finance" \in topics /\ "asset_pricing" \in topics
              THEN 6 ELSE 0
      r2 == IF "behavioral_finance" \in topics /\ "machine_learning" \in tags
              THEN 4 ELSE 0
      r3 == IF "tail_risk" \in topics /\ "behavioral_finance" \in topics
              THEN 5 ELSE 0
      r4 == IF "quant_trading" \in topics
                 /\ ("machine_learning" \in tags \/ "nlp_finance" \in topics)
              THEN 5 ELSE 0
      r5 == IF "gender_finance" \in topics /\ "corporate_finance" \in topics
              THEN 4 ELSE 0
      src == IF Get(paper, "source", "?") = "arXiv"
                  /\ \E c \in Range(Get(paper, "categories", <<>>)) :
                        StartsWith(c, QFinPrefix)
              THEN 2 ELSE 0
  IN  Round2(r1 + r2 + r3 + r4 + r5 + KeywordBoost(full_text) + src - base)

\* PaperProcessor._score_importance, in half units
_score_importance(paper) ==
  LET topics    == Range(Get(paper, "matched_topics", <<>>))
      tags      == Range(Get(paper, "ai_tags", <<>>))
      full_text == Lower(Get(paper, "title", <<>>)) \o <<" ">>
                     \o Lower(Get(paper, "abstract", <<>>))
      base      == Get(paper, "relevance_score", 0) * 3
      r1 == IF "nlp_finance" \in topics /\ "asset_pricing" \in topics
              THEN 6 ELSE 0
      r2 == IF "behavioral_finance" \in topics /\ "machine_learning" \in tags
              THEN 4 ELSE 0
      r3 == IF "tail_risk" \in topics /\ "behavioral_finance" \in topics
              THEN 5 ELSE 0
      r4 == IF "quant_trading" \in topics
                 /\ ("machine_learning" \in tags \/ "nlp_finance" \in topics)
              THEN 5 ELSE 0
      r5 == IF "gender_finance" \in topics /\ "corporate_finance" \in topics
              THEN 4 ELSE 0
      src == IF Get(paper, "source", "?") = "arXiv"
                  /\ \E c \in Range(Get(paper, "categories", <<>>)) :
                        StartsWith(c, QFinPrefix)
              THEN 2 ELSE 0
  IN  Round2(base + r1 + r2 + r3 + r4 + r5 + KeywordBoost(full_text) + src)

\* the list tags of _extract_tags before list(set(tags)): the method tags
\* whose keyword occurs in "abstract summary".lower(), in dict order, then the
\* matched topics
ExtractedTags(summary, paper) ==
  LET full_text == Lower(Get(paper, "abstract", <<>>) \o <<" ">> \o summary)
      hit(m)    == \E k \in 1..Len(m.keywords) :
                      Contains(Lower(m.keywords[k]), full_text)
  IN  SelectSeq([k \in 1..Len(methods) |-> IF hit(methods[k]) THEN methods[k].tag ELSE ""],
                LAMBDA t : t # "")
        \o Get(paper, "matched_topics", <<>>)

\* the lists without repetition that enumerate set S
ListsOf(S) ==
  {l \in [1..Cardinality(S) -> S] : \A a, b \in 1..Cardinality(S) : l[a] = l[b] => a = b}

\* (mutant) _extract_tags without tags.extend(paper.get("matched_topics", []))
_extract_tags_NoTopics(summary, paper) ==
  SelectSeq(hash_order[ExtractedTags(summary, paper)],
            LAMBDA t : t \notin Range(Get(paper, "matched_topics", <<>>)))

\* PaperProcessor._extract_tags: list(set(tags)) holds each tag once, in the
\* iteration order of a set of str. That order follows from the hashes of the
\* strings, which are drawn when the process starts: it is unknown, and the
\* same for the same list tags as long as the process lives (hash_order).
_extract_tags(summary, paper) == hash_order[ExtractedTags(summary, paper)]


---------------------------------------------------------------------------
(* _score_importance applied to one paper of a bounded family *)

\* the topics the rules of _score_importance read
ScoreTopics ==
  <<"nlp_finance", "asset_pricing", "behavioral_finance", "tail_risk",
    "quant_trading", "gender_finance", "corporate_finance">>

\* every matched_topics made of these topics, in config order
ScoreTopicLists ==
  {SelectSeq(ScoreTopics, LAMBDA t : t \in S) : S \in SUBSET Range(ScoreTopics)}

\* title and abstract: no keyword, one keyword, several keywords of kw_boosts
\* (also one, "female ceo", that only the join of title and abstract forms)
ScoreTexts ==
  { [title |-> <<>>,               abstract |-> <<>>],
    [title |-> <<"F","u","n","d","s">>,          abstract |-> <<"H","e","r","d","i","n","g"," ","o","f"," ","f","u","n","d","s",".">>],
    [title |-> <<"Q","u","a","n","t","i","l","e"," ","G","P","T">>,   abstract |-> <<"D","e","e","p"," ","L","e","a","r","n","i","n","g"," ","a","n","d"," ","S","h","a","r","p","e",".">>],
    [title |-> <<"F","e","m","a","l","e">>,         abstract |-> <<"C","E","O"," ","s","e","n","t","i","m","e","n","t"," ","a","n","d"," ","L","L","M">>],
    [title |-> <<"A","n","o","m","a","l","y">>,        abstract |-> <<"r","e","i","n","f","o","r","c","e","m","e","n","t"," ","l","e","a","r","n","i","n","g">>],
    [title |-> <<"N","e","u","r","a","l"," ","N","e","t","w","o","r","k">>, abstract |-> <<"A"," ","f","a","c","t","o","r"," ","m","o","d","e","l",".">>] }

\* ai_tags: key absent, tags without machine_learning, tags with it
ScoreTagChoices ==
  { <<>>, <<<<"empirical">>>>, <<<<"machine_learning", "empirical">>>> }

\* categories: key absent, no q-fin category, a q-fin category in second place
ScoreCategoryChoices ==
  { <<>>, <<<<<<"c","s",".","L","G">>>>>>, <<<<<<"c","s",".","L","G">>, <<"q","-","f","i","n",".","P","M">>>>>> }

\* d with key k set to the element of the choice c, or left without k when c
\* is empty
PutIf(d, k, c) == IF c = <<>> THEN d ELSE Put(d, k, c[1])

ScorePapers ==
  { PutIf(PutIf([source |-> src, title |-> tx.title, abstract |-> tx.abstract,
                 matched_topics |-> mt, relevance_score |-> rel],
                "ai_tags", tg), "categories", cat) :
      src \in {"arXiv", "NBER"}, tx \in ScoreTexts, mt \in ScoreTopicLists,
      rel \in 0..MaxRelevance, tg \in ScoreTagChoices, cat \in ScoreCategoryChoices }

\* before _score_importance is called on paper p
ScoreStart(p) ==
  /\ s_paper = p
  /\ s_score = 0
  /\ s_pc = "start"

\* score = self._score_importance(paper)
ScorePaper ==
  /\ s_pc = "start"
  /\ \E res \in {_score_importance(s_paper)} : s_score' = res
  /\ s_pc' = "scored"
  /\ UNCHANGED s_paper
  /\ UNCHANGED <<dedupVars, procVars, obsVars, filterVars, runVars, selVars>>

---------------------------------------------------------------------------
(* The papers and the collaborator's responses explored *)

\* as the NBER filter returns it: topic behavioral_finance ("herding"),
\* relevance_score = len(matched_topics); the abstract has 66 characters and
\* holds the keyword "diagnostic" of kw_boosts
PaperA ==
  [source |-> "NBER",
   title |-> <<"H","e","r","d","i","n","g"," ","i","n"," ","F","u","n","d","s">>,
   abstract |-> <<"W","e"," ","s","t","u","d","y"," ","h","e","r","d","i","n","g"," ","a","m","o","n","g"," ","f","u","n","d","s"," ","w","i","t","h"," ","a"," ","d","i","a","g","n","o","s","t","i","c"," ","t","e","s","t"," ","o","n"," ","s","m","a","l","l"," ","c","a","p","s",".">>,
   matched_topics |-> <<"behavioral_finance">>,
   relevance_score |-> 1]

\* as the arXiv filter returns it: topic quant_trading ("pairs trading"),
\* relevance_score = len(matched_topics) + 1 (a q-fin category); the abstract
\* is shorter than 50 characters
PaperB ==
  [source |-> "arXiv",
   title |-> <<"P","a","i","r","s"," ","t","r","a","d","i","n","g"," ","r","u","l","e","s">>,
   abstract |-> <<"S","h","o","r","t"," ","n","o","t","e",".">>,
   categories |-> << <<"q","-","f","i","n",".","T","R">> >>,
   matched_topics |-> <<"quant_trading">>,
   relevance_score |-> 2]

PaperPool == <<PaperA, PaperB>>

\* The heaps explored: NumPapers fresh papers (no AI field yet), two of which
\* may be equal by value. Listing the pool in non-decreasing order loses
\* nothing: a batch lists the references in any order.
Heaps ==
  {[r \in 1..NumPapers |-> PaperPool[f[r]]] :
     f \in {g \in [1..NumPapers -> 1..Len(PaperPool)] :
              \A a, b \in 1..NumPapers : a <= b => g[a] <= g[b]}}

\* The lists given to process_papers: any list of distinct paper objects
Batches ==
  {b \in UNION {[1..n -> 1..NumPapers] : n \in 0..NumPapers} :
     \A a, c \in 1..Len(b) : b[a] = b[c] => a = c}

\* What one invocation of the collaborator does: it raises, or it returns a
\* response whose text is empty, or a text. ResponseA holds a keyword of the
\* machine_learning method ("transformer") and ends in a line break.
ResponseA == <<"U","s","e","s"," ","a"," ","t","r","a","n","s","f","o","r","m","e","r",".","\n">>

Outcomes ==
  { [raises |-> TRUE,  text |-> <<>>],
    [raises |-> FALSE, text |-> <<>>],
    [raises |-> FALSE, text |-> ResponseA] }

\* the lists tags that _extract_tags can build for the papers and responses
\* explored, and the orders list(set(tags)) can have in one process
TagLists ==
  {ExtractedTags(Strip(o.text), p) :
     o \in {x \in Outcomes : x.text # <<>>},
     p \in {q \in Range(PaperPool) : Len(q.abstract) >= MinAbstractLen}}

HashOrders ==
  {f \in [TagLists -> UNION {ListsOf(Range(l)) : l \in TagLists}] :
     \A l \in TagLists : f[l] \in ListsOf(Range(l))}

\* client = "disabled": ai_disabled is set / self.client is None
\* client = "raises":   the collaborator raises on every invocation
\* client = "live":     every invocation may raise or answer
Clients == {"disabled", "raises", "live"}

OutcomesOf(c) == IF c = "raises" THEN {o \in Outcomes : o.raises} ELSE Outcomes

---------------------------------------------------------------------------
(* PaperProcessor (ai_processor.py) *)

\* f"Skipped AI to save cost (top {self.max_ai_papers} only)"
SkippedNote(n) == <<"Skipped AI to save cost (top N only)", n>>
TooShortNote   == <<"Abstract too short">>
\* str(e) of the exception caught by process_papers
ErrorText      == <<"error">>
\* the dict {}
EmptyDict      == <<>>
Fallback     == <<"A","n","a","l","y","s","i","s"," ","u","n","a","v","a","i","l","a","b","l","e">>

\* (mutant) _call_gemini without its try/except: the exception of the
\* collaborator leaves the method
_call_gemini_NoCatch(outcome) ==
  IF client = "disabled"
    THEN [value |-> None, network |-> 0, raised |-> FALSE]
    ELSE IF outcome.raises
      THEN [value |-> None, network |-> 1, raised |-> TRUE]
      ELSE IF outcome.text # <<>>
        THEN [value |-> Strip(outcome.text), network |-> 1, raised |-> FALSE]
        ELSE [value |-> None, network |-> 1, raised |-> FALSE]

\* (mutant) _call_gemini that sends the request a second time when the first
\* one raises
_call_gemini_Retry(outcome) ==
  IF client = "disabled"
    THEN [value |-> None, network |-> 0, raised |-> FALSE]
    ELSE IF outcome.raises
      THEN [value |-> None, network |-> 2, raised |-> FALSE]
      ELSE IF outcome.text # <<>>
        THEN [value |-> Strip(outcome.text), network |-> 1, raised |-> FALSE]
        ELSE [value |-> None, network |-> 1, raised |-> FALSE]

\* (mutant) _call_gemini without "if self.ai_disabled or self.client is None":
\* the request is sent whatever the state of the client
_call_gemini_NoGuard(outcome) ==
  IF outcome.raises
    THEN [value |-> None, network |-> 1, raised |-> FALSE]
    ELSE IF outcome.text # <<>>
      THEN [value |-> Strip(outcome.text), network |-> 1, raised |-> FALSE]
      ELSE [value |-> None, network |-> 1, raised |-> FALSE]

\* PaperProcessor._call_gemini, given what the collaborator does when invoked:
\* value is the returned text or None, network the number of requests sent,
\* raised whether an exception leaves the method
_call_gemini(outcome) ==
  IF client = "disabled"
    THEN [value |-> None, network |-> 0, raised |-> FALSE]
    ELSE IF outcome.raises
      THEN [value |-> None, network |-> 1, raised |-> FALSE]
      ELSE IF outcome.text # <<>>
        THEN [value |-> Strip(outcome.text), network |-> 1, raised |-> FALSE]
        ELSE [value |-> None, network |-> 1, raised |-> FALSE]

\* (mutant) _process_single_paper that computes importance_score before it
\* stores ai_summary and ai_tags
_process_single_paper_ScoreFirst(paper, outcome) ==
  LET abstract == Get(paper, "abstract", <<>>)
  IN  IF abstract = <<>> \/ Len(abstract) < MinAbstractLen
        THEN LET p1 == Put(paper, "ai_summary", None)
                 p2 == Put(p1, "ai_note", TooShortNote)
             IN  [paper |-> Put(p2, "importance_score", _score_importance(p2)),
                  network |-> 0, raised |-> FALSE, failed |-> FALSE]
        ELSE LET response == _call_gemini(outcome)
             IN  IF response.raised
                   THEN [paper |-> paper, network |-> response.network,
                         raised |-> TRUE, failed |-> TRUE]
                   ELSE LET p0 == Put(paper, "importance_score", _score_importance(paper))
                            p1 == IF response.value # <<>>
                                    THEN Put(Put(p0, "ai_summary", response.value),
                                             "ai_tags", _extract_tags(response.value, paper))
                                    ELSE Put(p0, "ai_summary", None)
                        IN  [paper |-> p1,
                             network |-> response.network, raised |-> FALSE,
                             failed |-> response.value = <<>>]

\* PaperProcessor._process_single_paper, given what the collaborator does when
\* invoked: the dict after the call, the requests sent, whether an exception
\* leaves the method, and whether the enrichment failed
_process_single_paper(paper, outcome) ==
  LET abstract == Get(paper, "abstract", <<>>)
  IN  IF abstract = <<>> \/ Len(abstract) < MinAbstractLen
        THEN LET p1 == Put(paper, "ai_summary", None)
                 p2 == Put(p1, "ai_note", TooShortNote)
             IN  [paper |-> Put(p2, "importance_score", _score_importance(p2)),
                  network |-> 0, raised |-> FALSE, failed |-> FALSE]
        ELSE LET response == _call_gemini(outcome)
             IN  IF response.raised
                   THEN [paper |-> paper, network |-> response.network,
                         raised |-> TRUE, failed |-> TRUE]
                   ELSE LET p1 == IF response.value # <<>>
                                    THEN Put(Put(paper, "ai_summary", response.value),
                                             "ai_tags", _extract_tags(response.value, paper))
                                    ELSE Put(paper, "ai_summary", None)
                        IN  [paper |-> Put(p1, "importance_score", _score_importance(p1)),
                             network |-> response.network, raised |-> FALSE,
                             failed |-> response.value = <<>>]

\* (mutant) a sort that puts a paper before the papers of equal key that
\* precede it in the input
RECURSIVE InsertDesc_TiesReversed(_, _, _, _)
InsertDesc_TiesReversed(h, field, s, r) ==
  IF s = <<>> THEN <<r>>
  ELSE IF Get(h[Head(s)], field, 0) > Get(h[r], field, 0)
    THEN <<Head(s)>> \o InsertDesc_TiesReversed(h, field, Tail(s), r)
    ELSE <<r>> \o s

\* sorted(refs, key=lambda x: heap[x].get(field, 0), reverse=True): Python's
\* sort is stable, and with reverse=True equal keys keep their input order
RECURSIVE InsertDesc(_, _, _, _)
InsertDesc(h, field, s, r) ==
  IF s = <<>> THEN <<r>>
  ELSE IF Get(h[Head(s)], field, 0) >= Get(h[r], field, 0)
    THEN <<Head(s)>> \o InsertDesc(h, field, Tail(s), r)
    ELSE <<r>> \o s

RECURSIVE SortedDesc(_, _, _)
SortedDesc(h, field, s) ==
  IF s = <<>> THEN <<>>
  ELSE InsertDesc(h, field, SortedDesc(h, field, SubSeq(s, 1, Len(s) - 1)), s[Len(s)])

\* "paper in top_ai": a list of dicts is searched with ==, equality by value
InTopAi(h, r) == \E k \in 1..Len(top_ai) : h[top_ai[k]] = h[r]

---------------------------------------------------------------------------
(* Relevance filters of the scrapers *)

\* TOPICS of config.py, in dict order
TOPICS ==
  <<
    [topic |-> "behavioral_finance",
     keywords |-> <<
        <<"b","e","h","a","v","i","o","r","a","l"," ","f","i","n","a","n","c","e">>,
        <<"i","n","v","e","s","t","o","r"," ","s","e","n","t","i","m","e","n","t">>,
        <<"m","a","r","k","e","t"," ","s","e","n","t","i","m","e","n","t">>,
        <<"o","v","e","r","c","o","n","f","i","d","e","n","c","e">>,
        <<"l","o","s","s"," ","a","v","e","r","s","i","o","n">>,
        <<"p","r","o","s","p","e","c","t"," ","t","h","e","o","r","y">>,
        <<"a","t","t","e","n","t","i","o","n"," ","a","l","l","o","c","a","t","i","o","n">>,
        <<"l","i","m","i","t","e","d"," ","a","t","t","e","n","t","i","o","n">>,
        <<"s","a","l","i","e","n","c","e">>,
        <<"e","x","t","r","a","p","o","l","a","t","i","o","n">>,
        <<"b","e","l","i","e","f"," ","f","o","r","m","a","t","i","o","n">>,
        <<"d","i","a","g","n","o","s","t","i","c"," ","e","x","p","e","c","t","a","t","i","o","n","s">>,
        <<"a","n","c","h","o","r","i","n","g">>,
        <<"h","e","r","d","i","n","g">>,
        <<"d","i","s","p","o","s","i","t","i","o","n"," ","e","f","f","e","c","t">>,
        <<"n","a","r","r","a","t","i","v","e"," ","f","i","n","a","n","c","e">>,
        <<"i","n","v","e","s","t","o","r"," ","p","s","y","c","h","o","l","o","g","y">>,
        <<"r","e","t","a","i","l"," ","i","n","v","e","s","t","o","r">>,
        <<"h","o","u","s","e","h","o","l","d"," ","f","i","n","a","n","c","e">>>>],
    [topic |-> "asset_pricing",
     keywords |-> <<
        <<"a","s","s","e","t"," ","p","r","i","c","i","n","g">>,
        <<"r","i","s","k"," ","p","r","e","m","i","u","m">>,
        <<"f","a","c","t","o","r"," ","m","o","d","e","l">>,
        <<"a","n","o","m","a","l","y">>,
        <<"c","r","o","s","s","-","s","e","c","t","i","o","n","a","l"," ","r","e","t","u","r","n","s">>,
        <<"t","i","m","e","-","s","e","r","i","e","s"," ","p","r","e","d","i","c","t","a","b","i","l","i","t","y">>,
        <<"e","x","p","e","c","t","e","d"," ","r","e","t","u","r","n","s">>,
        <<"m","o","m","e","n","t","u","m">>,
        <<"v","a","l","u","e"," ","p","r","e","m","i","u","m">>,
        <<"m","a","c","h","i","n","e"," ","l","e","a","r","n","i","n","g"," ","a","s","s","e","t"," ","p","r","i","c","i","n","g">>,
        <<"n","e","u","r","a","l"," ","n","e","t","w","o","r","k"," ","r","e","t","u","r","n","s">>,
        <<"q","u","a","n","t","i","l","e"," ","r","e","g","r","e","s","s","i","o","n"," ","f","i","n","a","n","c","e">>,
        <<"s","t","o","c","h","a","s","t","i","c"," ","d","i","s","c","o","u","n","t"," ","f","a","c","t","o","r">>,
        <<"n","o","-","a","r","b","i","t","r","a","g","e">>,
        <<"o","p","t","i","o","n"," ","p","r","i","c","i","n","g">>,
        <<"v","a","r","i","a","n","c","e"," ","r","i","s","k"," ","p","r","e","m","i","u","m">>>>],
    [topic |-> "market_microstructure",
     keywords |-> <<
        <<"m","a","r","k","e","t"," ","m","i","c","r","o","s","t","r","u","c","t","u","r","e">>,
        <<"p","r","i","c","e"," ","d","i","s","c","o","v","e","r","y">>,
        <<"l","i","q","u","i","d","i","t","y">>,
        <<"h","i","g","h"," ","f","r","e","q","u","e","n","c","y"," ","t","r","a","d","i","n","g">>,
        <<"o","r","d","e","r"," ","f","l","o","w">>,
        <<"i","n","f","o","r","m","e","d"," ","t","r","a","d","i","n","g">>,
        <<"i","n","s","i","d","e","r"," ","t","r","a","d","i","n","g">>,
        <<"i","n","f","o","r","m","a","t","i","o","n"," ","a","s","y","m","m","e","t","r","y">>,
        <<"b","i","d","-","a","s","k"," ","s","p","r","e","a","d">>,
        <<"d","a","r","k"," ","p","o","o","l">>,
        <<"m","a","r","k","e","t"," ","m","a","k","i","n","g">>,
        <<"a","d","v","e","r","s","e"," ","s","e","l","e","c","t","i","o","n">>>>],
    [topic |-> "nlp_finance",
     keywords |-> <<
        <<"t","e","x","t"," ","a","n","a","l","y","s","i","s"," ","f","i","n","a","n","c","e">>,
        <<"N","L","P"," ","f","i","n","a","n","c","e">>,
        <<"L","L","M"," ","f","i","n","a","n","c","e">>,
        <<"l","a","n","g","u","a","g","e"," ","m","o","d","e","l"," ","a","s","s","e","t"," ","p","r","i","c","i","n","g">>,
        <<"t","r","a","n","s","f","o","r","m","e","r"," ","f","i","n","a","n","c","e">>,
        <<"s","e","n","t","i","m","e","n","t"," ","a","n","a","l","y","s","i","s"," ","s","t","o","c","k">>,
        <<"n","e","w","s"," ","a","n","d"," ","r","e","t","u","r","n","s">>,
        <<"C","h","a","t","G","P","T"," ","f","i","n","a","n","c","e">>,
        <<"l","a","r","g","e"," ","l","a","n","g","u","a","g","e"," ","m","o","d","e","l"," ","i","n","v","e","s","t","m","e","n","t">>,
        <<"G","P","T"," ","s","t","o","c","k"," ","p","r","e","d","i","c","t","i","o","n">>,
        <<"e","a","r","n","i","n","g","s"," ","c","a","l","l"," ","N","L","P">>,
        <<"1","0","-","K"," ","t","e","x","t"," ","a","n","a","l","y","s","i","s">>>>],
    [topic |-> "tail_risk",
     keywords |-> <<
        <<"t","a","i","l"," ","r","i","s","k">>,
        <<"d","o","w","n","s","i","d","e"," ","r","i","s","k">>,
        <<"c","r","a","s","h"," ","r","i","s","k">>,
        <<"v","o","l","a","t","i","l","i","t","y"," ","r","i","s","k">>,
        <<"c","o","n","d","i","t","i","o","n","a","l"," ","v","a","l","u","e"," ","a","t"," ","r","i","s","k">>,
        <<"e","x","t","r","e","m","e"," ","r","e","t","u","r","n","s">>,
        <<"s","k","e","w","n","e","s","s"," ","p","r","e","m","i","u","m">>,
        <<"j","u","m","p"," ","r","i","s","k">>,
        <<"r","a","r","e"," ","d","i","s","a","s","t","e","r">>,
        <<"l","e","f","t"," ","t","a","i","l">>,
        <<"s","y","s","t","e","m","i","c"," ","r","i","s","k">>>>],
    [topic |-> "corporate_finance",
     keywords |-> <<
        <<"c","o","r","p","o","r","a","t","e"," ","f","i","n","a","n","c","e">>,
        <<"c","a","p","i","t","a","l"," ","s","t","r","u","c","t","u","r","e">>,
        <<"C","E","O">>,
        <<"b","o","a","r","d"," ","o","f"," ","d","i","r","e","c","t","o","r","s">>,
        <<"m","a","n","a","g","e","r","i","a","l"," ","i","n","c","e","n","t","i","v","e","s">>,
        <<"e","x","e","c","u","t","i","v","e"," ","c","o","m","p","e","n","s","a","t","i","o","n">>,
        <<"M","&","A">>,
        <<"m","e","r","g","e","r","s"," ","a","n","d"," ","a","c","q","u","i","s","i","t","i","o","n","s">>,
        <<"c","o","r","p","o","r","a","t","e"," ","g","o","v","e","r","n","a","n","c","e">>,
        <<"f","i","r","m"," ","i","n","v","e","s","t","m","e","n","t">>,
        <<"d","i","v","i","d","e","n","d"," ","p","o","l","i","c","y">>,
        <<"p","a","y","o","u","t"," ","p","o","l","i","c","y">>,
        <<"I","P","O">>,
        <<"s","e","a","s","o","n","e","d"," ","e","q","u","i","t","y"," ","o","f","f","e","r","i","n","g">>,
        <<"d","e","b","t"," ","f","i","n","a","n","c","i","n","g">>,
        <<"f","i","n","a","n","c","i","a","l"," ","c","o","n","s","t","r","a","i","n","t","s">>,
        <<"c","a","s","h"," ","h","o","l","d","i","n","g","s">>,
        <<"c","o","r","p","o","r","a","t","e"," ","d","e","b","t">>,
        <<"c","r","e","d","i","t"," ","r","i","s","k">>,
        <<"d","e","f","a","u","l","t"," ","r","i","s","k">>,
        <<"b","a","n","k","r","u","p","t","c","y">>,
        <<"p","r","i","v","a","t","e"," ","e","q","u","i","t","y">>,
        <<"v","e","n","t","u","r","e"," ","c","a","p","i","t","a","l">>,
        <<"f","i","n","a","n","c","i","a","l"," ","d","i","s","t","r","e","s","s">>>>],
    [topic |-> "gender_finance",
     keywords |-> <<
        <<"g","e","n","d","e","r"," ","f","i","n","a","n","c","e">>,
        <<"g","e","n","d","e","r"," ","g","a","p">>,
        <<"f","e","m","a","l","e"," ","C","E","O">>,
        <<"w","o","m","e","n"," ","b","o","a","r","d">>,
        <<"g","e","n","d","e","r"," ","d","i","v","e","r","s","i","t","y">>,
        <<"g","l","a","s","s"," ","c","e","i","l","i","n","g">>,
        <<"g","e","n","d","e","r"," ","d","i","s","c","r","i","m","i","n","a","t","i","o","n">>,
        <<"f","e","m","a","l","e"," ","e","x","e","c","u","t","i","v","e","s">>,
        <<"g","e","n","d","e","r"," ","p","a","y"," ","g","a","p">>,
        <<"g","e","n","d","e","r"," ","i","n","v","e","s","t","m","e","n","t">>,
        <<"w","o","m","e","n"," ","e","n","t","r","e","p","r","e","n","e","u","r","s","h","i","p">>,
        <<"g","e","n","d","e","r"," ","b","i","a","s"," ","f","i","n","a","n","c","e">>,
        <<"f","e","m","a","l","e"," ","i","n","v","e","s","t","o","r">>,
        <<"g","e","n","d","e","r"," ","a","n","d"," ","r","i","s","k">>,
        <<"m","a","t","e","r","n","i","t","y"," ","l","e","a","v","e"," ","f","i","r","m">>,
        <<"g","e","n","d","e","r"," ","b","o","a","r","d"," ","d","i","v","e","r","s","i","t","y">>,
        <<"r","a","c","i","a","l"," ","d","i","v","e","r","s","i","t","y"," ","b","o","a","r","d">>,
        <<"d","i","v","e","r","s","i","t","y"," ","i","n","c","l","u","s","i","o","n"," ","f","i","n","a","n","c","e">>>>],
    [topic |-> "quant_trading",
     keywords |-> <<
        <<"q","u","a","n","t","i","t","a","t","i","v","e"," ","t","r","a","d","i","n","g">>,
        <<"a","l","g","o","r","i","t","h","m","i","c"," ","t","r","a","d","i","n","g">>,
        <<"s","y","s","t","e","m","a","t","i","c"," ","t","r","a","d","i","n","g">>,
        <<"b","a","c","k","t","e","s","t","i","n","g">>,
        <<"t","r","a","d","i","n","g"," ","s","t","r","a","t","e","g","y">>,
        <<"a","l","p","h","a"," ","g","e","n","e","r","a","t","i","o","n">>,
        <<"m","a","c","h","i","n","e"," ","l","e","a","r","n","i","n","g"," ","t","r","a","d","i","n","g">>,
        <<"r","e","i","n","f","o","r","c","e","m","e","n","t"," ","l","e","a","r","n","i","n","g"," ","t","r","a","d","i","n","g">>,
        <<"d","e","e","p"," ","l","e","a","r","n","i","n","g"," ","p","o","r","t","f","o","l","i","o">>,
        <<"f","a","c","t","o","r"," ","i","n","v","e","s","t","i","n","g">>,
        <<"s","m","a","r","t"," ","b","e","t","a">>,
        <<"s","t","a","t","i","s","t","i","c","a","l"," ","a","r","b","i","t","r","a","g","e">>,
        <<"p","a","i","r","s"," ","t","r","a","d","i","n","g">>,
        <<"m","e","a","n"," ","r","e","v","e","r","s","i","o","n"," ","s","t","r","a","t","e","g","y">>,
        <<"t","r","e","n","d"," ","f","o","l","l","o","w","i","n","g">>,
        <<"C","T","A">>,
        <<"r","i","s","k"," ","p","a","r","i","t","y">>,
        <<"p","o","r","t","f","o","l","i","o"," ","o","p","t","i","m","i","z","a","t","i","o","n">>,
        <<"d","y","n","a","m","i","c"," ","a","s","s","e","t"," ","a","l","l","o","c","a","t","i","o","n">>,
        <<"e","x","e","c","u","t","i","o","n"," ","a","l","g","o","r","i","t","h","m">>,
        <<"m","a","r","k","e","t"," ","i","m","p","a","c","t">>,
        <<"t","r","a","n","s","a","c","t","i","o","n"," ","c","o","s","t","s">>,
        <<"K","e","l","l","y"," ","c","r","i","t","e","r","i","o","n">>,
        <<"S","h","a","r","p","e"," ","r","a","t","i","o"," ","o","p","t","i","m","i","z","a","t","i","o","n">>,
        <<"n","e","u","r","a","l"," ","n","e","t","w","o","r","k"," ","t","r","a","d","i","n","g">>,
        <<"L","S","T","M"," ","f","o","r","e","c","a","s","t","i","n","g"," ","r","e","t","u","r","n","s">>,
        <<"g","r","a","d","i","e","n","t"," ","b","o","o","s","t","i","n","g"," ","f","i","n","a","n","c","e">>,
        <<"r","a","n","d","o","m"," ","f","o","r","e","s","t"," ","s","t","o","c","k"," ","s","e","l","e","c","t","i","o","n">>>>]
  >>
\* the topic given to an arXiv paper kept for its category alone
DefaultTopic == "asset_pricing"

\* sources whose filter keeps a paper for a q-fin category
QFinSources == {"arXiv"}
\* sources whose filter returns relevant as it is, without sorting it
UnsortedSources == {"RSS"}
FilterSources == {"arXiv", "NBER", "SSRN", "NEP", "RSS"}

\* text = f"{title} {abstract}".lower(); the topics of TOPICS, in dict order,
\* one of whose keywords, lowercased, occurs in text
MatchedTopics(paper) ==
  LET text   == Lower(Get(paper, "title", <<>>) \o <<" ">> \o Get(paper, "abstract", <<>>))
      hit(t) == \E k \in 1..Len(t.keywords) : Contains(Lower(t.keywords[k]), text)
  IN  SelectSeq([k \in 1..Len(TOPICS) |-> IF hit(TOPICS[k]) THEN TOPICS[k].topic ELSE ""],
                LAMBDA t : t # "")

\* is_qfin = any(c.startswith("q-fin") for c in paper.get("categories", []))
IsQFin(paper) ==
  \E c \in Range(Get(paper, "categories", <<>>)) : StartsWith(c, QFinPrefix)

\* titles and abstracts: no topic (with an empty abstract), one topic, three
\* topics, and a keyword written in capitals in the text
FilterTexts ==
  { [title |-> <<"D","e","e","p"," ","n","e","t","s">>,           abstract |-> <<>>],
    [title |-> <<"H","e","r","d","i","n","g"," ","i","n"," ","F","u","n","d","s">>,    abstract |-> <<"W","e"," ","s","t","u","d","y"," ","H","E","R","D","I","N","G",".">>],
    [title |-> <<"M","o","m","e","n","t","u","m",","," ","c","r","a","s","h"," ","r","i","s","k">>, abstract |-> <<"T","a","i","l"," ","r","i","s","k"," ","a","n","d"," ","l","i","q","u","i","d","i","t","y",".">>] }

\* what a scraper hands to its filter: an arXiv paper has categories, the
\* papers of the other scrapers have none
FilterPapers(source) ==
  IF source = "arXiv"
    THEN { [source |-> source, title |-> tx.title, abstract |-> tx.abstract,
            categories |-> cat] :
             tx \in FilterTexts,
             cat \in { <<>>, <<<<"c","s",".","L","G">>>>, <<<<"q","-","f","i","n",".","T","R">>>>, <<<<"c","s",".","L","G">>, <<"q","-","f","i","n",".","P","M">>>> } }
    ELSE { [source |-> source, title |-> tx.title, abstract |-> tx.abstract] :
             tx \in FilterTexts }

FilterInputs(source) ==
  UNION {[1..n -> FilterPapers(source)] : n \in 0..MaxFilterLen}

\* entry of _filter_relevant: relevant = []
FilterStart(source, ps) ==
  /\ f_source = source
  /\ f_papers = ps
  /\ f_i = 1
  /\ relevant = <<>>
  /\ f_out = <<>>
  /\ f_pc = "loop"

\* (mutant) the arXiv filter with the test of the other filters,
\* "if matched_topics:"
FilterStep_TopicsOnly ==
  /\ f_pc = "loop"
  /\ f_i <= Len(f_papers)
  /\ \E matched_topics \in {MatchedTopics(f_papers[f_i])} :
       LET paper   == f_papers[f_i]
           is_qfin == f_source \in QFinSources /\ IsQFin(paper)
           p1      == Put(paper, "matched_topics",
                          IF matched_topics # <<>> THEN matched_topics
                          ELSE <<DefaultTopic>>)
           p2      == Put(p1, "relevance_score",
                          Len(matched_topics) + (IF is_qfin THEN 1 ELSE 0))
       IN  IF matched_topics # <<>>
             THEN /\ f_papers' = [f_papers EXCEPT ![f_i] = p2]
                  /\ relevant' = Append(relevant, p2)
             ELSE UNCHANGED <<f_papers, relevant>>
  /\ f_i' = f_i + 1
  /\ UNCHANGED <<f_source, f_out, f_pc>>
  /\ UNCHANGED <<dedupVars, procVars, obsVars, scoreVars, runVars, selVars>>

\* one iteration of the for loop of _filter_relevant. The arXiv filter keeps
\* a paper "if matched_topics or is_qfin", gives it the default topic when no
\* topic matched and counts is_qfin in relevance_score; the other filters
\* keep it "if matched_topics" with relevance_score = len(matched_topics).
\* The paper object is changed in place.
FilterStep ==
  /\ f_pc = "loop"
  /\ f_i <= Len(f_papers)
  /\ \E matched_topics \in {MatchedTopics(f_papers[f_i])} :
       LET paper   == f_papers[f_i]
           is_qfin == f_source \in QFinSources /\ IsQFin(paper)
           p1      == Put(paper, "matched_topics",
                          IF matched_topics # <<>> THEN matched_topics
                          ELSE <<DefaultTopic>>)
           p2      == Put(p1, "relevance_score",
                          Len(matched_topics) + (IF is_qfin THEN 1 ELSE 0))
       IN  IF matched_topics # <<>> \/ is_qfin
             THEN /\ f_papers' = [f_papers EXCEPT ![f_i] = p2]
                  /\ relevant' = Append(relevant, p2)
             ELSE UNCHANGED <<f_papers, relevant>>
  /\ f_i' = f_i + 1
  /\ UNCHANGED <<f_source, f_out, f_pc>>
  /\ UNCHANGED <<dedupVars, procVars, obsVars, scoreVars, runVars, selVars>>

\* return sorted(relevant, key=lambda x: x["relevance_score"], reverse=True);
\* rss_scraper returns relevant
FilterReturn ==
  /\ f_pc = "loop"
  /\ f_i > Len(f_papers)
  /\ f_out' = IF f_source \in UnsortedSources THEN relevant
              ELSE LET order == SortedDesc(relevant, "relevance_score",
                                           [k \in 1..Len(relevant) |-> k])
                   IN  [k \in 1..Len(relevant) |-> relevant[order[k]]]
  /\ f_pc' = "returned"
  /\ UNCHANGED <<f_source, f_papers, f_i, relevant>>
  /\ UNCHANGED <<dedupVars, procVars, obsVars, scoreVars, runVars, selVars>>

---------------------------------------------------------------------------
(* run_agent (main.py): what the fetchers hand to it *)

\* papers as the NBER filter returns them: one without a title (the API item
\* had none: "title": item.get("title", "")), and k-th of a long listing,
\* whose abstract is still to be fetched from the paper page
Untitled ==
  [source |-> "NBER",
   title |-> <<>>,
   abstract |-> <<"W","e"," ","s","t","u","d","y"," ","h","e","r","d","i","n","g"," ","a","m","o","n","g"," ","f","u","n","d","s",".">>,
   matched_topics |-> <<"behavioral_finance">>,
   relevance_score |-> 1]

Numbered(k) ==
  [source |-> "NBER",
   title |-> <<"H","e","r","d","i","n","g"," ">> \o Pad(k, "i"),
   abstract |-> <<>>,
   matched_topics |-> <<"behavioral_finance">>,
   relevance_score |-> 1]

\* as the SSRN filter returns it: the title of PaperA in capitals
SsrnPaper ==
  [source |-> "SSRN",
   title |-> <<"H","E","R","D","I","N","G"," ","I","N"," ","F","U","N","D","S">>,
   abstract |-> <<>>,
   matched_topics |-> <<"behavioral_finance">>,
   relevance_score |-> 1]

\* as the arXiv filter returns it: the title of Numbered(1) with a capital
ArxivDup ==
  [source |-> "arXiv",
   title |-> <<"H","e","r","d","i","n","g"," ","I">>,
   abstract |-> <<"H","e","r","d","i","n","g"," ","o","n","l","i","n","e",".">>,
   categories |-> << <<"c","s",".","L","G">> >>,
   matched_topics |-> <<"behavioral_finance">>,
   relevance_score |-> 1]

\* the order of the three blocks of run_agent
Sources == <<"NBER", "SSRN", "arXiv">>

\* the lists fetch_recent_papers returns, sorted by relevance_score as
\* _filter_relevant leaves them
Returns(source) ==
  IF source = "NBER"
    THEN { <<>>, <<Untitled>>, <<PaperA, Numbered(1)>>,
           [k \in 1..MaxFetched |-> Numbered(k)] }
  ELSE IF source = "SSRN"
    THEN { <<>>, <<SsrnPaper>> }
    ELSE { <<>>, <<PaperB, ArxivDup>> }

\* the abstract found on a paper page by fetch_paper_details
DetailAbstract == <<"T","h","e"," ","a","b","s","t","r","a","c","t"," ","o","f"," ","t","h","e"," ","p","a","p","e","r"," ","p","a","g","e",","," ","l","o","n","g"," ","e","n","o","u","g","h"," ","t","o"," ","b","e"," ","s","u","m","m","a","r","i","s","e","d",".">>

\* what one block of run_agent meets: fetch_recent_papers raises, or it
\* returns a list; details tells whether the paper pages give an abstract
FetchOutcomes(source) ==
  { [raises |-> TRUE, papers |-> <<>>, details |-> FALSE] }
    \cup { [raises |-> FALSE, papers |-> ps, details |-> d] :
             ps \in Returns(source), d \in BOOLEAN }

\* for p in papers[:30]: if not p.get("abstract"): p = fetch_paper_details(p)
\* fetch_paper_details sets p["abstract"] in place when the page has one and
\* catches its own exceptions
WithDetails(ps, found) ==
  [k \in 1..Len(ps) |->
     IF k <= DetailsLen /\ Get(ps[k], "abstract", <<>>) = <<>> /\ found
       THEN Put(ps[k], "abstract", DetailAbstract)
       ELSE ps[k]] \o <<>>

\* (mutant) a block of run_agent without try/except: the exception of the
\* fetcher leaves run_agent
TryFetch_NoCatch(o, with_details) ==
  IF o.raises
    THEN [papers |-> <<>>, aborted |-> TRUE]
    ELSE [papers |-> IF with_details THEN WithDetails(o.papers, o.details) ELSE o.papers,
          aborted |-> FALSE]

\* the try/except of one block of run_agent: the papers it adds to
\* all_papers, and whether an exception leaves run_agent
TryFetch(o, with_details) ==
  IF o.raises
    THEN [papers |-> <<>>, aborted |-> FALSE]
    ELSE [papers |-> IF with_details THEN WithDetails(o.papers, o.details) ELSE o.papers,
          aborted |-> FALSE]

\* _demo_papers(): the fields read by the code modelled
_demo_papers ==
  << [source |-> "NBER",
      title |-> <<"A","t","t","e","n","t","i","o","n"," ","M","e","c","h","a","n","i","s","m","s"," ","a","n","d"," ","C","r","o","s","s","-","S","e","c","t","i","o","n","a","l"," ","R","e","t","u","r","n"," ","P","r","e","d","i","c","t","a","b","i","l","i","t","y">>,
      abstract |-> <<"W","e"," ","a","p","p","l","y"," ","t","r","a","n","s","f","o","r","m","e","r"," ","a","t","t","e","n","t","i","o","n"," ","t","o"," ","m","e","a","s","u","r","e"," ","t","i","m","e","-","v","a","r","y","i","n","g"," ","i","n","v","e","s","t","o","r"," ","a","t","t","e","n","t","i","o","n"," ","a","n","d"," ","s","h","o","w"," ","i","t"," ","p","r","e","d","i","c","t","s"," ","c","r","o","s","s","-","s","e","c","t","i","o","n","a","l"," ","r","e","t","u","r","n","s","."," ","S","t","o","c","k","s"," ","w","i","t","h"," ","h","i","g","h"," ","a","t","t","e","n","t","i","o","n"," ","e","a","r","n"," ","s","i","g","n","i","f","i","c","a","n","t"," ","a","l","p","h","a","s"," ","a","f","t","e","r"," ","c","o","n","t","r","o","l","l","i","n","g"," ","f","o","r"," ","k","n","o","w","n"," ","f","a","c","t","o","r","s","."," ","T","h","e"," ","e","f","f","e","c","t"," ","i","s"," ","s","t","r","o","n","g","e","s","t"," ","f","o","r"," ","r","e","t","a","i","l","-","d","o","m","i","n","a","t","e","d"," ","s","t","o","c","k","s",","," ","c","o","n","s","i","s","t","e","n","t"," ","w","i","t","h"," ","b","e","h","a","v","i","o","r","a","l"," ","t","h","e","o","r","i","e","s"," ","o","f"," ","l","i","m","i","t","e","d"," ","a","t","t","e","n","t","i","o","n"," ","a","n","d"," ","s","a","l","i","e","n","c","e",".">>,
      matched_topics |-> <<"behavioral_finance", "asset_pricing", "nlp_finance">>,
      relevance_score |-> 3],
     [source |-> "SSRN",
      title |-> <<"Q","u","a","n","t","i","l","e"," ","S","e","n","t","i","m","e","n","t"," ","a","n","d"," ","T","a","i","l"," ","R","i","s","k"," ","i","n"," ","E","q","u","i","t","y"," ","M","a","r","k","e","t","s">>,
      abstract |-> <<"W","e"," ","d","e","v","e","l","o","p"," ","a"," ","q","u","a","n","t","i","l","e","-","b","a","s","e","d"," ","f","r","a","m","e","w","o","r","k"," ","l","i","n","k","i","n","g"," ","s","e","n","t","i","m","e","n","t","-","i","n","d","u","c","e","d"," ","b","e","l","i","e","f"," ","d","i","s","t","o","r","t","i","o","n","s"," ","t","o"," ","t","a","i","l"," ","r","i","s","k"," ","p","r","e","m","i","a","."," ","U","s","i","n","g"," ","d","i","a","g","n","o","s","t","i","c"," ","e","x","p","e","c","t","a","t","i","o","n","s",","," ","w","e"," ","s","h","o","w"," ","t","h","a","t"," ","s","e","n","t","i","m","e","n","t"," ","s","h","i","f","t","s"," ","t","h","e"," ","q","u","a","n","t","i","l","e"," ","p","r","e","f","e","r","e","n","c","e"," ","p","a","r","a","m","e","t","e","r","s"," ","a","s","y","m","m","e","t","r","i","c","a","l","l","y",","," ","g","e","n","e","r","a","t","i","n","g"," ","e","x","c","e","s","s"," ","s","k","e","w","n","e","s","s"," ","i","n"," ","t","h","e"," ","c","r","o","s","s","-","s","e","c","t","i","o","n","."," ","E","m","p","i","r","i","c","a","l","l","y",","," ","q","u","a","n","t","i","l","e","-","s","e","n","t","i","m","e","n","t"," ","f","a","c","t","o","r","s"," ","e","a","r","n"," ","s","i","g","n","i","f","i","c","a","n","t"," ","r","i","s","k","-","a","d","j","u","s","t","e","d"," ","r","e","t","u","r","n","s",".">>,
      matched_topics |-> <<"behavioral_finance", "asset_pricing", "tail_risk">>,
      relevance_score |-> 3],
     [source |-> "arXiv",
      title |-> <<"R","e","i","n","f","o","r","c","e","m","e","n","t"," ","L","e","a","r","n","i","n","g"," ","f","o","r"," ","O","p","t","i","m","a","l"," ","E","x","e","c","u","t","i","o","n"," ","i","n"," ","L","i","m","i","t"," ","O","r","d","e","r"," ","B","o","o","k","s">>,
      abstract |-> <<"W","e"," ","f","o","r","m","u","l","a","t","e"," ","o","p","t","i","m","a","l"," ","t","r","a","d","e"," ","e","x","e","c","u","t","i","o","n"," ","a","s"," ","a"," ","M","a","r","k","o","v"," ","D","e","c","i","s","i","o","n"," ","P","r","o","c","e","s","s"," ","a","n","d"," ","t","r","a","i","n"," ","d","e","e","p"," ","R","L"," ","a","g","e","n","t","s"," ","o","n"," ","a"," ","r","e","a","l","i","s","t","i","c"," ","L","O","B"," ","s","i","m","u","l","a","t","o","r","."," ","O","u","r"," ","a","g","e","n","t"," ","o","u","t","p","e","r","f","o","r","m","s"," ","T","W","A","P","/","V","W","A","P"," ","b","e","n","c","h","m","a","r","k","s"," ","b","y"," ","1","5"," ","b","p","s"," ","o","n"," ","a","v","e","r","a","g","e"," ","w","h","i","l","e"," ","c","o","n","t","r","o","l","l","i","n","g"," ","m","a","r","k","e","t"," ","i","m","p","a","c","t","."," ","W","e"," ","a","n","a","l","y","z","e"," ","t","h","e"," ","l","e","a","r","n","e","d"," ","p","o","l","i","c","y"," ","t","h","r","o","u","g","h"," ","a","t","t","e","n","t","i","o","n"," ","v","i","s","u","a","l","i","z","a","t","i","o","n",".">>,
      categories |-> << <<"q","-","f","i","n",".","T","R">>, <<"c","s",".","L","G">> >>,
      matched_topics |-> <<"quant_trading", "market_microstructure">>,
      relevance_score |-> 2],
     [source |-> "NBER",
      title |-> <<"G","e","n","d","e","r"," ","D","i","v","e","r","s","i","t","y"," ","a","n","d"," ","C","o","r","p","o","r","a","t","e"," ","I","n","n","o","v","a","t","i","o","n",":"," ","C","a","u","s","a","l"," ","E","v","i","d","e","n","c","e">>,
      abstract |-> <<"U","s","i","n","g"," ","b","o","a","r","d"," ","g","e","n","d","e","r"," ","q","u","o","t","a"," ","l","e","g","i","s","l","a","t","i","o","n"," ","a","s"," ","a"," ","n","a","t","u","r","a","l"," ","e","x","p","e","r","i","m","e","n","t",","," ","w","e"," ","i","d","e","n","t","i","f","y"," ","t","h","e"," ","c","a","u","s","a","l"," ","e","f","f","e","c","t"," ","o","f"," ","f","e","m","a","l","e"," ","b","o","a","r","d"," ","r","e","p","r","e","s","e","n","t","a","t","i","o","n"," ","o","n"," ","c","o","r","p","o","r","a","t","e"," ","i","n","n","o","v","a","t","i","o","n","."," ","F","i","r","m","s"," ","w","i","t","h"," ","m","o","r","e"," ","f","e","m","a","l","e"," ","d","i","r","e","c","t","o","r","s"," ","f","i","l","e"," ","s","i","g","n","i","f","i","c","a","n","t","l","y"," ","m","o","r","e"," ","p","a","t","e","n","t","s"," ","a","n","d"," ","a","d","o","p","t"," ","l","o","n","g","e","r"," ","i","n","v","e","s","t","m","e","n","t"," ","h","o","r","i","z","o","n","s","."," ","E","f","f","e","c","t","s"," ","a","r","e"," ","s","t","r","o","n","g","e","r"," ","i","n"," ","m","a","l","e","-","d","o","m","i","n","a","t","e","d"," ","i","n","d","u","s","t","r","i","e","s",".">>,
      matched_topics |-> <<"gender_finance", "corporate_finance">>,
      relevance_score |-> 2],
     [source |-> "SSRN",
      title |-> <<"C","E","O"," ","O","v","e","r","c","o","n","f","i","d","e","n","c","e",","," ","C","a","p","i","t","a","l"," ","S","t","r","u","c","t","u","r","e",","," ","a","n","d"," ","F","i","n","a","n","c","i","a","l"," ","D","i","s","t","r","e","s","s">>,
      abstract |-> <<"W","e"," ","c","o","n","s","t","r","u","c","t"," ","a"," ","C","E","O"," ","o","v","e","r","c","o","n","f","i","d","e","n","c","e"," ","m","e","a","s","u","r","e"," ","f","r","o","m"," ","o","p","t","i","o","n"," ","e","x","e","r","c","i","s","e"," ","b","e","h","a","v","i","o","r"," ","a","n","d"," ","s","h","o","w"," ","o","v","e","r","c","o","n","f","i","d","e","n","t"," ","C","E","O","s"," ","u","s","e"," ","m","o","r","e"," ","d","e","b","t","."," ","T","h","i","s"," ","o","v","e","r","-","l","e","v","e","r","a","g","e"," ","i","n","c","r","e","a","s","e","s"," ","f","i","n","a","n","c","i","a","l"," ","d","i","s","t","r","e","s","s"," ","p","r","o","b","a","b","i","l","i","t","y"," ","b","y"," ","2","3","%"," ","i","n"," ","o","u","r"," ","s","a","m","p","l","e","."," ","T","h","e"," ","e","f","f","e","c","t"," ","i","s"," ","a","t","t","e","n","u","a","t","e","d"," ","b","y"," ","s","t","r","o","n","g"," ","b","o","a","r","d"," ","o","v","e","r","s","i","g","h","t"," ","a","n","d"," ","i","n","s","t","i","t","u","t","i","o","n","a","l"," ","m","o","n","i","t","o","r","i","n","g",".">>,
      matched_topics |-> <<"behavioral_finance", "corporate_finance">>,
      relevance_score |-> 2],
     [source |-> "arXiv",
      title |-> <<"D","e","e","p"," ","L","e","a","r","n","i","n","g"," ","f","o","r"," ","F","a","c","t","o","r"," ","Z","o","o",":"," ","N","e","u","r","a","l"," ","A","l","p","h","a"," ","P","r","e","d","i","c","t","i","o","n">>,
      abstract |-> <<"W","e"," ","t","r","a","i","n"," ","a"," ","d","e","e","p"," ","n","e","u","r","a","l"," ","n","e","t","w","o","r","k"," ","o","n"," ","2","0","0","+"," ","f","i","r","m"," ","c","h","a","r","a","c","t","e","r","i","s","t","i","c","s"," ","t","o"," ","p","r","e","d","i","c","t"," ","m","o","n","t","h","l","y"," ","r","e","t","u","r","n","s","."," ","U","s","i","n","g"," ","f","e","a","t","u","r","e"," ","i","m","p","o","r","t","a","n","c","e"," ","f","r","o","m"," ","S","H","A","P"," ","v","a","l","u","e","s",","," ","w","e"," ","i","d","e","n","t","i","f","y"," ","t","h","e"," ","t","o","p"," ","p","r","e","d","i","c","t","i","v","e"," ","s","i","g","n","a","l","s"," ","a","n","d"," ","c","o","n","s","t","r","u","c","t"," ","n","e","u","r","a","l"," ","a","l","p","h","a"," ","f","a","c","t","o","r","s","."," ","O","u","t","-","o","f","-","s","a","m","p","l","e"," ","S","h","a","r","p","e"," ","r","a","t","i","o"," ","r","e","a","c","h","e","s"," ","2",".","1"," ","w","i","t","h"," ","m","o","d","e","s","t"," ","t","r","a","n","s","a","c","t","i","o","n"," ","c","o","s","t","s",".">>,
      categories |-> << <<"q","-","f","i","n",".","P","M">>, <<"c","s",".","L","G">> >>,
      matched_topics |-> <<"asset_pricing", "quant_trading", "nlp_finance">>,
      relevance_score |-> 3],
     [source |-> "NBER",
      title |-> <<"L","L","M"," ","E","a","r","n","i","n","g","s"," ","C","a","l","l"," ","A","n","a","l","y","s","i","s"," ","a","n","d"," ","S","u","b","s","e","q","u","e","n","t"," ","S","t","o","c","k"," ","R","e","t","u","r","n","s">>,
      abstract |-> <<"W","e"," ","a","p","p","l","y"," ","G","P","T","-","4"," ","t","o"," ","a","n","a","l","y","z","e"," ","5","0",",","0","0","0"," ","e","a","r","n","i","n","g","s"," ","c","a","l","l"," ","t","r","a","n","s","c","r","i","p","t","s"," ","a","n","d"," ","e","x","t","r","a","c","t"," ","s","e","n","t","i","m","e","n","t",","," ","u","n","c","e","r","t","a","i","n","t","y",","," ","a","n","d"," ","t","o","p","i","c"," ","e","x","p","o","s","u","r","e","."," ","L","L","M","-","e","x","t","r","a","c","t","e","d"," ","s","i","g","n","a","l","s"," ","p","r","e","d","i","c","t"," ","n","e","x","t","-","q","u","a","r","t","e","r"," ","r","e","t","u","r","n","s"," ","w","i","t","h"," ","a"," ","t","-","s","t","a","t"," ","o","f"," ","4",".","2","."," ","T","h","e"," ","p","r","e","d","i","c","t","a","b","i","l","i","t","y"," ","i","s"," ","c","o","n","c","e","n","t","r","a","t","e","d"," ","i","n"," ","p","e","r","i","o","d","s"," ","o","f"," ","h","i","g","h"," ","r","e","t","a","i","l"," ","i","n","v","e","s","t","o","r"," ","a","t","t","e","n","t","i","o","n",".">>,
      matched_topics |-> <<"nlp_finance", "asset_pricing", "behavioral_finance">>,
      relevance_score |-> 3],
     [source |-> "SSRN",
      title |-> <<"S","t","a","t","i","s","t","i","c","a","l"," ","A","r","b","i","t","r","a","g","e"," ","w","i","t","h"," ","M","a","c","h","i","n","e"," ","L","e","a","r","n","i","n","g",":"," ","A"," ","S","y","s","t","e","m","a","t","i","c"," ","R","e","v","i","e","w">>,
      abstract |-> <<"W","e"," ","s","u","r","v","e","y"," ","2","0","0"," ","m","a","c","h","i","n","e"," ","l","e","a","r","n","i","n","g"," ","a","p","p","r","o","a","c","h","e","s"," ","t","o"," ","s","t","a","t","i","s","t","i","c","a","l"," ","a","r","b","i","t","r","a","g","e",","," ","d","o","c","u","m","e","n","t","i","n","g"," ","p","e","r","f","o","r","m","a","n","c","e"," ","d","e","c","a","y"," ","o","v","e","r"," ","t","i","m","e","."," ","L","o","n","g","-","o","n","l","y"," ","M","L"," ","s","t","r","a","t","e","g","i","e","s"," ","r","e","t","a","i","n"," ","a","l","p","h","a"," ","l","o","n","g","e","r"," ","t","h","a","n"," ","l","o","n","g","-","s","h","o","r","t"," ","s","t","r","a","t","e","g","i","e","s","."," ","W","e"," ","p","r","o","v","i","d","e"," ","a"," ","m","e","t","a","-","a","n","a","l","y","s","i","s"," ","o","f"," ","f","e","a","t","u","r","e"," ","i","m","p","o","r","t","a","n","c","e"," ","a","c","r","o","s","s"," ","s","t","u","d","i","e","s",".">>,
      matched_topics |-> <<"quant_trading", "asset_pricing">>,
      relevance_score |-> 2] >>

\* the narrative of _build_insights (the dash of the source is written "-")
DemoNarrative ==
  <<"Demo mode - AI narrative disabled. Run without --dry-run for full analysis.">>

\* run_agent is not running
RunIdle ==
  /\ dry_run = FALSE
  /\ ssrn_enabled = FALSE
  /\ r_pc = "idle"
  /\ all_papers = <<>>
  /\ fetched = <<>>
  /\ report = None

---------------------------------------------------------------------------
(* GeminiProcessor.process_papers: the per-topic selection
   (gemini_processor.py; the body of the method is read at the indentation
   of its def line) *)

\* the papers given to the selection: matched_topics and relevance_score as
\* a filter leaves them (each topic once, in the order of TOPICS; one more
\* for a q-fin category)
SelectPapers ==
  { [matched_topics |-> ts, relevance_score |-> Len(ts) + bonus] :
      ts \in { <<"behavioral_finance">>, <<"asset_pricing">>,
               <<"behavioral_finance", "asset_pricing">> },
      bonus \in {0, 1} }

SelectInputs == UNION { [1..n -> SelectPapers] : n \in 0..MaxSelectLen }

\* the selection is not running
SelectIdle ==
  /\ g_papers = <<>>
  /\ g_sorted = <<>>
  /\ g_i = 1
  /\ selected_ids = {}
  /\ topic_counts = EmptyDict

\* (mutant) a paper is selected only if every one of its topics is below the
\* limit
RECURSIVE SelectOne_AllTopics(_, _, _, _)
SelectOne_AllTopics(counts, ids, r, topics) ==
  IF \E k \in 1..Len(topics) : Get(counts, topics[k], 0) >= PerTopic
    THEN [topic_counts |-> counts, selected_ids |-> ids]
    ELSE IF topics = <<>>
      THEN [topic_counts |-> counts, selected_ids |-> ids]
      ELSE SelectOne_AllTopics(Put(counts, Head(topics), Get(counts, Head(topics), 0) + 1),
                               ids \cup {r}, r, Tail(topics))

\* "for topic in p.get("matched_topics", []): if topic_counts.get(topic, 0) < 2:
\* selected_ids.add(id(p)); topic_counts[topic] = topic_counts.get(topic, 0) + 1"
\* for the paper at position r, topics being the topics still to visit
RECURSIVE SelectOne(_, _, _, _)
SelectOne(counts, ids, r, topics) ==
  IF topics = <<>>
    THEN [topic_counts |-> counts, selected_ids |-> ids]
    ELSE IF Get(counts, Head(topics), 0) < PerTopic
      THEN SelectOne(Put(counts, Head(topics), Get(counts, Head(topics), 0) + 1),
                     ids \cup {r}, r, Tail(topics))
      ELSE SelectOne(counts, ids, r, Tail(topics))

\* entry of the selection: selected_ids = set(), topic_counts = {}, and
\* sorted_papers = sorted(papers, key=relevance_score default 0, reverse=True)
InitSelect ==
  /\ g_papers \in SelectInputs
  /\ g_sorted = SortedDesc(g_papers, "relevance_score", [k \in 1..Len(g_papers) |-> k])
  /\ g_i = 1
  /\ selected_ids = {}
  /\ topic_counts = EmptyDict

\* one iteration of "for p in sorted_papers"
SelectStep ==
  /\ g_i <= Len(g_sorted)
  /\ \E res \in {SelectOne(topic_counts, selected_ids, g_sorted[g_i],
                           Get(g_papers[g_sorted[g_i]], "matched_topics", <<>>))} :
       /\ topic_counts' = res.topic_counts
       /\ selected_ids' = res.selected_ids
  /\ g_i' = g_i + 1
  /\ UNCHANGED <<g_papers, g_sorted>>
  /\ UNCHANGED <<dedupVars, procVars, obsVars, scoreVars, filterVars, runVars>>

\* the walk is over
SelectDone == g_i > Len(g_sorted)

\* the state of a run before process_papers is entered
RunReset ==
  /\ attempted' = {}
  /\ skipped' = {}
  /\ calls' = [r \in 1..NumPapers |-> 0]
  /\ failed' = {}
  /\ last_event' = "none"
  /\ narrative_calls' = 0
  /\ insights' = EmptyDict

\* process_papers(papers) is entered: "if not papers: return []", else the
\* sort and the selection of top_ai, before the loop
StartRun ==
  /\ pc \in {"idle", "done"}
  /\ \E b \in Batches :
       /\ papers' = b
       /\ IF b = <<>>
            THEN /\ papers_sorted' = <<>>
                 /\ top_ai' = <<>>
                 /\ pc' = "returned"
            ELSE /\ papers_sorted' = SortedDesc(heap, "relevance_score", b)
                 /\ top_ai' = Prefix(papers_sorted', max_ai_papers)
                 /\ pc' = "loop"
  /\ processed' = <<>>
  /\ i' = 1
  /\ RunReset
  /\ UNCHANGED <<heap, max_ai_papers, client, hash_order, dedupVars, scoreVars, filterVars, runVars, selVars>>

\* (mutant) the skip branch without processed.append(paper)
ProcessSkipped_NoAppend ==
  /\ pc = "loop"
  /\ i <= Len(papers_sorted)
  /\ LET r  == papers_sorted[i]
         p1 == Put(heap[r], "ai_summary", None)
         p2 == Put(p1, "ai_note", SkippedNote(max_ai_papers))
         p3 == Put(p2, "importance_score", _score_importance(p2))
     IN  /\ ~InTopAi(heap, r)
         /\ heap' = [heap EXCEPT ![r] = p3]
         /\ skipped' = skipped \cup {r}
  /\ i' = i + 1
  /\ UNCHANGED <<max_ai_papers, client, hash_order, pc, papers, papers_sorted, top_ai,
                 processed, insights>>
  /\ UNCHANGED <<attempted, calls, failed, last_event, narrative_calls,
                 dedupVars, scoreVars, filterVars, runVars, selVars>>

\* one iteration of the loop for a paper that is "not in top_ai"
ProcessSkipped ==
  /\ pc = "loop"
  /\ i <= Len(papers_sorted)
  /\ LET r  == papers_sorted[i]
         p1 == Put(heap[r], "ai_summary", None)
         p2 == Put(p1, "ai_note", SkippedNote(max_ai_papers))
         p3 == Put(p2, "importance_score", _score_importance(p2))
     IN  /\ ~InTopAi(heap, r)
         /\ heap' = [heap EXCEPT ![r] = p3]
         /\ processed' = Append(processed, r)
         /\ skipped' = skipped \cup {r}
  /\ i' = i + 1
  /\ UNCHANGED <<max_ai_papers, client, hash_order, pc, papers, papers_sorted, top_ai, insights>>
  /\ UNCHANGED <<attempted, calls, failed, last_event, narrative_calls,
                 dedupVars, scoreVars, filterVars, runVars, selVars>>

\* one iteration of the loop for a paper that is "in top_ai": the try block up
\* to processed.append(enhanced), or the except block when
\* _process_single_paper raises
ProcessSelected ==
  /\ pc = "loop"
  /\ i <= Len(papers_sorted)
  /\ LET r == papers_sorted[i]
     IN  /\ InTopAi(heap, r)
         /\ \E o \in OutcomesOf(client) :
            \E res \in {_process_single_paper(heap[r], o)} :
              LET e1 == Put(heap[r], "ai_summary", None)
                  e2 == Put(e1, "ai_error", ErrorText)
                  e3 == Put(e2, "importance_score", _score_importance(e2))
              IN  /\ heap' = [heap EXCEPT ![r] = IF res.raised THEN e3 ELSE res.paper]
                  /\ calls' = [calls EXCEPT ![r] = @ + res.network]
                  /\ failed' = IF res.failed THEN failed \cup {r} ELSE failed
                  /\ last_event' = IF res.network > 0 THEN "call" ELSE last_event
                  /\ pc' = IF res.raised THEN "loop" ELSE "sleep"
                  /\ i' = IF res.raised THEN i + 1 ELSE i
         /\ processed' = Append(processed, r)
         /\ attempted' = attempted \cup {r}
  /\ UNCHANGED <<max_ai_papers, client, hash_order, papers, papers_sorted, top_ai, insights>>
  /\ UNCHANGED <<skipped, narrative_calls, dedupVars, scoreVars, filterVars, runVars, selVars>>

\* (mutant) the try block without time.sleep(0.2)
Sleep_Missing ==
  /\ pc = "sleep"
  /\ i' = i + 1
  /\ pc' = "loop"
  /\ UNCHANGED <<heap, max_ai_papers, client, hash_order, papers, papers_sorted, top_ai,
                 processed, insights>>
  /\ UNCHANGED <<obsVars, dedupVars, scoreVars, filterVars, runVars, selVars>>

\* time.sleep(0.2), the last statement of the try block
Sleep ==
  /\ pc = "sleep"
  /\ last_event' = "sleep"
  /\ i' = i + 1
  /\ pc' = "loop"
  /\ UNCHANGED <<heap, max_ai_papers, client, hash_order, papers, papers_sorted, top_ai,
                 processed, insights>>
  /\ UNCHANGED <<attempted, skipped, calls, failed, narrative_calls,
                 dedupVars, scoreVars, filterVars, runVars, selVars>>

\* "return processed"
Return ==
  /\ pc = "loop"
  /\ i > Len(papers_sorted)
  /\ pc' = "returned"
  /\ UNCHANGED <<heap, max_ai_papers, client, hash_order, papers, papers_sorted, top_ai, i,
                 processed, insights>>
  /\ UNCHANGED <<obsVars, dedupVars, scoreVars, filterVars, runVars, selVars>>

\* (mutant) counts in which a paper counts only under the first item of its
\* list
CountsOf_FirstOnly(h, refs, field) ==
  LET items(r) == Prefix(Get(h[r], field, <<>>), 1)
      keys     == UNION {Range(items(refs[k])) : k \in 1..Len(refs)}
  IN  [t \in keys |-> Cardinality({k \in 1..Len(refs) : t \in Range(items(refs[k]))})]

\* the dict of counts built by "counts[k] = counts.get(k, 0) + 1" over the
\* lists key(paper) of the papers
CountsOf(h, refs, field) ==
  LET items(r) == Get(h[r], field, <<>>)
      keys     == UNION {Range(items(refs[k])) : k \in 1..Len(refs)}
      occ(r, t) == Cardinality({j \in 1..Len(items(r)) : items(r)[j] = t})
      RECURSIVE total(_, _)
      total(n, t) == IF n = 0 THEN 0 ELSE total(n - 1, t) + occ(refs[n], t)
  IN  [t \in keys |-> total(Len(refs), t)]

\* source_counts: one count per paper, under paper.get("source", "?")
SourceCountsOf(h, refs) ==
  LET src(r) == Get(h[r], "source", "?")
  IN  [s \in {src(refs[k]) : k \in 1..Len(refs)} |->
         Cardinality({k \in 1..Len(refs) : src(refs[k]) = s})]

\* (mutant) generate_batch_insights that stores what _call_gemini returned,
\* without 'or "Analysis unavailable"'
GenerateBatchInsights_NoFallback ==
  /\ pc = "returned"
  /\ IF processed = <<>>
       THEN /\ insights' = EmptyDict
            /\ pc' = "done"
            /\ UNCHANGED <<narrative_calls, last_event>>
       ELSE \E o \in OutcomesOf(client) :
            \E narrative \in {_call_gemini(o)} :
              LET sorted_papers == SortedDesc(heap, "importance_score", processed)
              IN  /\ narrative_calls' = narrative_calls + narrative.network
                  /\ last_event' = IF narrative.network > 0 THEN "call" ELSE last_event
                  /\ IF narrative.raised
                       THEN /\ insights' = EmptyDict
                            /\ pc' = "crashed"
                       ELSE /\ insights' =
                                 [topic_distribution  |-> CountsOf(heap, processed, "matched_topics"),
                                  method_distribution |-> CountsOf(heap, processed, "ai_tags"),
                                  source_distribution |-> SourceCountsOf(heap, processed),
                                  top_papers   |-> Prefix(sorted_papers, TopPapersLen),
                                  narrative    |-> narrative.value,
                                  total_papers |-> Len(processed)]
                            /\ pc' = "done"
  /\ UNCHANGED <<heap, max_ai_papers, client, hash_order, papers, papers_sorted, top_ai, i,
                 processed>>
  /\ UNCHANGED <<attempted, skipped, calls, failed, dedupVars, scoreVars, filterVars, runVars, selVars>>

\* generate_batch_insights(processed), called by run_agent on what
\* process_papers returned; the narrative is one more call of _call_gemini
GenerateBatchInsights ==
  /\ pc = "returned"
  /\ IF processed = <<>>
       THEN /\ insights' = EmptyDict
            /\ pc' = "done"
            /\ UNCHANGED <<narrative_calls, last_event>>
       ELSE \E o \in OutcomesOf(client) :
            \E narrative \in {_call_gemini(o)} :
              LET sorted_papers == SortedDesc(heap, "importance_score", processed)
              IN  /\ narrative_calls' = narrative_calls + narrative.network
                  /\ last_event' = IF narrative.network > 0 THEN "call" ELSE last_event
                  /\ IF narrative.raised
                       THEN /\ insights' = EmptyDict
                            /\ pc' = "crashed"
                       ELSE /\ insights' =
                                 [topic_distribution  |-> CountsOf(heap, processed, "matched_topics"),
                                  method_distribution |-> CountsOf(heap, processed, "ai_tags"),
                                  source_distribution |-> SourceCountsOf(heap, processed),
                                  top_papers   |-> Prefix(sorted_papers, TopPapersLen),
                                  narrative    |-> IF narrative.value # <<>>
                                                     THEN narrative.value ELSE Fallback,
                                  total_papers |-> Len(processed)]
                            /\ pc' = "done"
  /\ UNCHANGED <<heap, max_ai_papers, client, hash_order, papers, papers_sorted, top_ai, i,
                 processed>>
  /\ UNCHANGED <<attempted, skipped, calls, failed, dedupVars, scoreVars, filterVars, runVars, selVars>>

---------------------------------------------------------------------------
(* Specifications *)

\* no run of process_papers has started
ProcIdle ==
  /\ pc = "idle"
  /\ papers = <<>>
  /\ papers_sorted = <<>>
  /\ top_ai = <<>>
  /\ i = 1
  /\ processed = <<>>
  /\ insights = EmptyDict
  /\ attempted = {}
  /\ skipped = {}
  /\ calls = [r \in 1..NumPapers |-> 0]
  /\ failed = {}
  /\ last_event = "none"
  /\ narrative_calls = 0

\* PaperProcessor() has been constructed; the papers are fresh
Init ==
  /\ heap \in Heaps
  /\ max_ai_papers \in 1..MaxAiCap
  /\ client \in Clients
  /\ hash_order \in HashOrders
  /\ ProcIdle
  /\ DedupStart(<<>>)
  /\ ScoreStart(PaperA)
  /\ FilterStart("NBER", <<>>)
  /\ RunIdle
  /\ SelectIdle

Next ==
  \/ StartRun
  \/ ProcessSkipped
  \/ ProcessSelected
  \/ Sleep
  \/ Return
  \/ GenerateBatchInsights

\* runs of process_papers followed by generate_batch_insights, each on any
\* list of the paper objects, as left by the runs before
Spec == Init /\ [][Next]_vars

\* _deduplicate on every list of at most MaxDedupLen papers
\* a processor that is constructed and never used
ProcUnused ==
  /\ heap = [r \in 1..NumPapers |-> PaperA]
  /\ max_ai_papers = 1
  /\ client = "disabled"
  /\ hash_order = CHOOSE f \in HashOrders : TRUE
  /\ ProcIdle

InitDedup ==
  /\ \E ps \in DedupInputs : DedupStart(ps)
  /\ ProcUnused
  /\ ScoreStart(PaperA)
  /\ FilterStart("NBER", <<>>)
  /\ RunIdle
  /\ SelectIdle

NextDedup ==
  \/ DedupStep
  \/ DedupAgain

SpecDedup == InitDedup /\ [][NextDedup]_vars

\* _score_importance on its own, for every paper of ScorePapers
InitScore ==
  /\ \E p \in ScorePapers : ScoreStart(p)
  /\ ProcUnused
  /\ DedupStart(<<>>)
  /\ FilterStart("NBER", <<>>)
  /\ RunIdle
  /\ SelectIdle

NextScore == ScorePaper

SpecScore == InitScore /\ [][NextScore]_vars

\* the relevance filter of each scraper, for every list of FilterInputs
InitFilter ==
  /\ \E source \in FilterSources : \E ps \in FilterInputs(source) : FilterStart(source, ps)
  /\ ProcUnused
  /\ DedupStart(<<>>)
  /\ ScoreStart(PaperA)
  /\ RunIdle
  /\ SelectIdle

NextFilter ==
  \/ FilterStep
  \/ FilterReturn

SpecFilter == InitFilter /\ [][NextFilter]_vars

\* final papers as process_papers leaves them, with the importance_score that
\* _score_importance gives them: one topic; two topics, enriched, with tags;
\* one topic and a keyword; two topics from another source. The last two have
\* the same score.
InsightPapers ==
  { Put(p, "importance_score", _score_importance(p)) : p \in
      { [source |-> "NBER", title |-> <<"H","e","r","d","i","n","g">>, abstract |-> <<>>,
         matched_topics |-> <<"behavioral_finance">>, relevance_score |-> 1,
         ai_summary |-> None, ai_note |-> TooShortNote],
        [source |-> "NBER", title |-> <<"C","r","a","s","h"," ","r","i","s","k"," ","a","n","d"," ","h","e","r","d","i","n","g">>, abstract |-> <<>>,
         matched_topics |-> <<"behavioral_finance", "tail_risk">>, relevance_score |-> 2,
         ai_summary |-> <<"P","a","n","e","l"," ","r","e","g","r","e","s","s","i","o","n",".">>,
         ai_tags |-> <<"empirical", "behavioral_finance", "tail_risk">>],
        [source |-> "NBER", title |-> <<"D","i","a","g","n","o","s","t","i","c"," ","e","x","p","e","c","t","a","t","i","o","n","s">>, abstract |-> <<>>,
         matched_topics |-> <<"behavioral_finance">>, relevance_score |-> 1,
         ai_summary |-> None, ai_note |-> TooShortNote],
        [source |-> "arXiv", title |-> <<"S","a","l","i","e","n","c","e"," ","a","n","d"," ","M","&","A">>, abstract |-> <<>>,
         categories |-> <<<<"e","c","o","n",".","G","N">>>>,
         matched_topics |-> <<"behavioral_finance", "corporate_finance">>,
         relevance_score |-> 2, ai_summary |-> None, ai_note |-> TooShortNote] } }

\* generate_batch_insights on its own: process_papers has returned the papers
\* 1..n of a heap of final papers
InitInsights ==
  /\ \E n \in 0..MaxInsightsLen :
       /\ heap \in [1..n -> InsightPapers]
       /\ processed = [k \in 1..n |-> k]
       /\ papers = [k \in 1..n |-> k]
       /\ papers_sorted = [k \in 1..n |-> k]
       /\ i = n + 1
  /\ top_ai = <<>>
  /\ pc = "returned"
  /\ insights = EmptyDict
  /\ max_ai_papers = 1
  /\ client = "disabled"
  /\ hash_order = CHOOSE f \in HashOrders : TRUE
  /\ attempted = {}
  /\ skipped = {}
  /\ calls = [r \in 1..NumPapers |-> 0]
  /\ failed = {}
  /\ last_event = "none"
  /\ narrative_calls = 0
  /\ DedupStart(<<>>)
  /\ ScoreStart(PaperA)
  /\ FilterStart("NBER", <<>>)
  /\ RunIdle
  /\ SelectIdle

NextInsights == GenerateBatchInsights

SpecInsights == InitInsights /\ [][NextInsights]_vars


---------------------------------------------------------------------------
(* run_agent (main.py) *)

\* what a block of run_agent appends to the history fetched
Fetched(source, ran, o) ==
  [source |-> source, ran |-> ran, raised |-> ran /\ o.raises,
   papers |-> IF ran THEN o.papers ELSE <<>>]

\* the NBER block: fetch, details of the first 30 papers, extend
FetchNBER ==
  /\ r_pc = "nber"
  /\ \E o \in FetchOutcomes("NBER") :
     \E res \in {TryFetch(o, TRUE)} :
       /\ all_papers' = all_papers \o res.papers
       /\ fetched' = Append(fetched, Fetched("NBER", TRUE, o))
       /\ r_pc' = IF res.aborted THEN "aborted" ELSE "ssrn"
  /\ UNCHANGED <<dry_run, ssrn_enabled, report>>
  /\ UNCHANGED <<dedupVars, procVars, obsVars, scoreVars, filterVars, selVars>>

\* the SSRN block: skipped when SSRN_CONFIG has enabled false, else as the
\* NBER block
FetchSSRN ==
  /\ r_pc = "ssrn"
  /\ IF ~ssrn_enabled
       THEN /\ fetched' = Append(fetched, Fetched("SSRN", FALSE, <<>>))
            /\ r_pc' = "arxiv"
            /\ UNCHANGED all_papers
       ELSE \E o \in FetchOutcomes("SSRN") :
            \E res \in {TryFetch(o, TRUE)} :
              /\ all_papers' = all_papers \o res.papers
              /\ fetched' = Append(fetched, Fetched("SSRN", TRUE, o))
              /\ r_pc' = IF res.aborted THEN "aborted" ELSE "arxiv"
  /\ UNCHANGED <<dry_run, ssrn_enabled, report>>
  /\ UNCHANGED <<dedupVars, procVars, obsVars, scoreVars, filterVars, selVars>>

\* the arXiv block: fetch, extend (no details)
FetchArXiv ==
  /\ r_pc = "arxiv"
  /\ \E o \in FetchOutcomes("arXiv") :
     \E res \in {TryFetch(o, FALSE)} :
       /\ all_papers' = all_papers \o res.papers
       /\ fetched' = Append(fetched, Fetched("arXiv", TRUE, o))
       /\ r_pc' = IF res.aborted THEN "aborted" ELSE "fallback"
  /\ UNCHANGED <<dry_run, ssrn_enabled, report>>
  /\ UNCHANGED <<dedupVars, procVars, obsVars, scoreVars, filterVars, selVars>>

\* "if not all_papers: all_papers = _demo_papers()", then _deduplicate is
\* entered with all_papers
DemoFallback ==
  /\ r_pc = "fallback"
  /\ all_papers' = IF all_papers = <<>> THEN _demo_papers ELSE all_papers
  /\ d_papers' = all_papers'
  /\ d_i' = 1
  /\ seen' = {}
  /\ out' = <<>>
  /\ UNCHANGED <<d_pass, d_first>>
  /\ r_pc' = "dedup"
  /\ UNCHANGED <<dry_run, ssrn_enabled, fetched, report>>
  /\ UNCHANGED <<procVars, obsVars, scoreVars, filterVars, selVars>>

\* the references 1..n
Refs(n) == [k \in 1..n |-> k]

\* (mutant) a non-dry run that hands the whole list to process_papers
ProcessPapers_NoLimit ==
  /\ r_pc = "dedup"
  /\ DedupDone
  /\ ~dry_run
  /\ all_papers' = out
  /\ heap' = out
  /\ papers' = Refs(Len(out))
  /\ IF papers' = <<>>
       THEN /\ papers_sorted' = <<>>
            /\ top_ai' = <<>>
            /\ pc' = "returned"
       ELSE /\ papers_sorted' = SortedDesc(heap', "relevance_score", papers')
            /\ top_ai' = Prefix(papers_sorted', max_ai_papers)
            /\ pc' = "loop"
  /\ processed' = <<>>
  /\ i' = 1
  /\ attempted' = {}
  /\ skipped' = {}
  /\ calls' = [r \in DOMAIN heap' |-> 0]
  /\ failed' = {}
  /\ last_event' = "none"
  /\ narrative_calls' = 0
  /\ insights' = EmptyDict
  /\ r_pc' = "ai"
  /\ UNCHANGED <<max_ai_papers, client, hash_order>>
  /\ UNCHANGED <<dry_run, ssrn_enabled, fetched, report>>
  /\ UNCHANGED <<dedupVars, scoreVars, filterVars, selVars>>

\* _deduplicate has returned and the run is not dry: the deduplicated papers
\* are the objects of the heap, in list order, and process_papers is entered
\* with all_papers[:limit] ("if not papers: return []", else the sort and the
\* selection of top_ai)
ProcessPapers ==
  /\ r_pc = "dedup"
  /\ DedupDone
  /\ ~dry_run
  /\ all_papers' = out
  /\ heap' = out
  /\ papers' = Prefix(Refs(Len(out)), MaxPapersInReport)
  /\ IF papers' = <<>>
       THEN /\ papers_sorted' = <<>>
            /\ top_ai' = <<>>
            /\ pc' = "returned"
       ELSE /\ papers_sorted' = SortedDesc(heap', "relevance_score", papers')
            /\ top_ai' = Prefix(papers_sorted', max_ai_papers)
            /\ pc' = "loop"
  /\ processed' = <<>>
  /\ i' = 1
  /\ attempted' = {}
  /\ skipped' = {}
  /\ calls' = [r \in DOMAIN heap' |-> 0]
  /\ failed' = {}
  /\ last_event' = "none"
  /\ narrative_calls' = 0
  /\ insights' = EmptyDict
  /\ r_pc' = "ai"
  /\ UNCHANGED <<max_ai_papers, client, hash_order>>
  /\ UNCHANGED <<dry_run, ssrn_enabled, fetched, report>>
  /\ UNCHANGED <<dedupVars, scoreVars, filterVars, selVars>>

\* (mutant) _build_insights that sorts by relevance_score
_build_insights_ByRelevance(h, refs) ==
  [topic_distribution  |-> CountsOf(h, refs, "matched_topics"),
   method_distribution |-> CountsOf(h, refs, "ai_tags"),
   source_distribution |-> SourceCountsOf(h, refs),
   top_papers   |-> Prefix(SortedDesc(h, "relevance_score", refs), TopPapersLen),
   narrative    |-> DemoNarrative,
   total_papers |-> Len(refs)]

\* _build_insights(papers) of main.py, on the papers refs of heap h
_build_insights(h, refs) ==
  [topic_distribution  |-> CountsOf(h, refs, "matched_topics"),
   method_distribution |-> CountsOf(h, refs, "ai_tags"),
   source_distribution |-> SourceCountsOf(h, refs),
   top_papers   |-> Prefix(SortedDesc(h, "importance_score", refs), TopPapersLen),
   narrative    |-> DemoNarrative,
   total_papers |-> Len(refs)]

\* _deduplicate has returned and the run is dry: the deduplicated papers are
\* the objects of the heap and insights = _build_insights(all_papers)
DryRun ==
  /\ r_pc = "dedup"
  /\ DedupDone
  /\ dry_run
  /\ all_papers' = out
  /\ heap' = out
  /\ insights' = _build_insights(heap', Refs(Len(out)))
  /\ r_pc' = "save"
  /\ UNCHANGED <<max_ai_papers, client, hash_order, pc, papers, papers_sorted, top_ai, i,
                 processed>>
  /\ UNCHANGED <<dry_run, ssrn_enabled, fetched, report>>
  /\ UNCHANGED <<dedupVars, obsVars, scoreVars, filterVars, selVars>>

\* the paper cards of generate_html_report: the first 30 papers by
\* importance_score, highest first
Cards(ps) ==
  LET order == SortedDesc(ps, "importance_score", Refs(Len(ps)))
  IN  [k \in 1..Min(CardsLen, Len(ps)) |-> ps[order[k]]] \o <<>>

\* the rest of run_agent: all_papers is what process_papers returned (non-dry
\* run); the snapshot holds the papers and the insights without top_papers;
\* generate_html_report is given all_papers and insights
SaveAndReport ==
  /\ \/ r_pc = "ai" /\ pc = "done"
     \/ r_pc = "save"
  /\ all_papers' = IF r_pc = "ai" THEN [k \in 1..Len(processed) |-> heap[processed[k]]] \o <<>>
                   ELSE all_papers
  /\ report' = [papers   |-> all_papers',
                insights |-> insights,
                snapshot |-> [papers   |-> all_papers',
                              insights |-> [k \in DOMAIN insights \ {"top_papers"} |->
                                              insights[k]]],
                cards    |-> Cards(all_papers')]
  /\ r_pc' = "reported"
  /\ UNCHANGED <<dry_run, ssrn_enabled, fetched>>
  /\ UNCHANGED <<dedupVars, procVars, obsVars, scoreVars, filterVars, selVars>>

\* the lists of tags of the papers of a run that can be enriched
RunTagLists ==
  TagLists \cup
  {ExtractedTags(Strip(o.text), p) :
     o \in {x \in Outcomes : x.text # <<>>},
     p \in Range(_demo_papers)
            \cup {Put(Numbered(1), "abstract", DetailAbstract),
                  Put(SsrnPaper, "abstract", DetailAbstract)}}

\* run_agent is entered. A dry run constructs no PaperProcessor; a non-dry run
\* constructs it with any max_ai_papers and client. The order of
\* list(set(tags)) is one order per list of tags.
InitRun ==
  /\ dry_run \in BOOLEAN
  /\ ssrn_enabled \in BOOLEAN
  /\ r_pc = "nber"
  /\ all_papers = <<>>
  /\ fetched = <<>>
  /\ report = None
  /\ heap = <<>>
  /\ IF dry_run
       THEN max_ai_papers = 1 /\ client = "disabled"
       ELSE max_ai_papers \in 1..MaxAiCap /\ client \in Clients
  /\ hash_order = [l \in RunTagLists |-> CHOOSE x \in ListsOf(Range(l)) : TRUE]
  /\ ProcIdle
  /\ DedupStart(<<>>)
  /\ ScoreStart(PaperA)
  /\ FilterStart("NBER", <<>>)
  /\ SelectIdle

NextRun ==
  \/ FetchNBER
  \/ FetchSSRN
  \/ FetchArXiv
  \/ DemoFallback
  \/ DedupStep
  \/ ProcessPapers
  \/ DryRun
  \/ ProcessSkipped
  \/ ProcessSelected
  \/ Sleep
  \/ Return
  \/ GenerateBatchInsights
  \/ SaveAndReport

\* one run of run_agent, dry or not, for every outcome of the three fetchers
SpecRun == InitRun /\ [][NextRun]_vars

\* the selection of GeminiProcessor.process_papers on every list of
\* SelectInputs
InitSelection ==
  /\ InitSelect
  /\ ProcUnused
  /\ DedupStart(<<>>)
  /\ ScoreStart(PaperA)
  /\ FilterStart("NBER", <<>>)
  /\ RunIdle

NextSelect == SelectStep

SpecSelect == InitSelection /\ [][NextSelect]_vars

---------------------------------------------------------------------------
(* Claims *)

\* the order-preserving subsequence of s made of the positions in S
RECURSIVE PickAt(_, _, _)
PickAt(s, S, n) ==
  IF n = 0 THEN <<>>
  ELSE IF n \in S THEN Append(PickAt(s, S, n - 1), s[n])
  ELSE PickAt(s, S, n - 1)

\* the network calls issued for the papers in this run
RECURSIVE SumCalls(_)
SumCalls(n) == IF n = 0 THEN 0 ELSE SumCalls(n - 1) + calls[n]
TotalCalls == SumCalls(NumPapers)

\* process_papers has returned
Returned == pc \in {"returned", "done"}

\* the dedup key as the claim states it: the lowercased title, truncated to
\* 60 characters
C1_Key(p) == Prefix(Lower(Get(p, "title", <<>>)), KeyLen)
C1_First(k) == \A j \in 1..(k - 1) : C1_Key(d_papers[j]) # C1_Key(d_papers[k])
C1_DistinctKeys == \A a, b \in 1..Len(out) : C1_Key(out[a]) = C1_Key(out[b]) => a = b

\* C1 as claimed: the output of _deduplicate is the input restricted to the
\* first paper of every dedup key, in input order, and no two output papers
\* share a key.
C1_FirstOfEveryKey ==
  DedupDone =>
    /\ out = PickAt(d_papers, {k \in 1..Len(d_papers) : C1_First(k)}, Len(d_papers))
    /\ C1_DistinctKeys

\* C1 as amended: the output of _deduplicate is the input restricted to the
\* first paper of every non-empty dedup key, in input order; a paper whose key
\* is empty (no title, or an empty one) is dropped, also the first one; no two
\* output papers share a key.
C1_FirstOfEveryNonEmptyKey ==
  DedupDone =>
    /\ out = PickAt(d_papers,
                    {k \in 1..Len(d_papers) :
                       C1_Key(d_papers[k]) # <<>> /\ C1_First(k)},
                    Len(d_papers))
    /\ C1_DistinctKeys

\* C1 witness: a finished run on a list in which two different papers share a
\* key that is longer than neither title (truncation) and one was kept
C1_Witness ==
  /\ DedupDone
  /\ out # <<>>
  /\ \E a, b \in 1..Len(d_papers) :
       /\ a < b
       /\ Has(d_papers[a], "title") /\ Has(d_papers[b], "title")
       /\ d_papers[a].title # d_papers[b].title
       /\ Len(d_papers[a].title) > KeyLen
       /\ C1_Key(d_papers[a]) = C1_Key(d_papers[b])

\* C2 as claimed: when the batch has more papers than max_ai_papers, exactly
\* max_ai_papers papers are handed to enrichment and exactly the others take
\* the skip branch, ending with ai_summary None and the skip note.
C2_ExactlyTopNSelected ==
  (Returned /\ Len(papers) > max_ai_papers) =>
    /\ Cardinality(attempted) = max_ai_papers
    /\ Cardinality(skipped) = Len(papers) - max_ai_papers
    /\ \A r \in skipped :
         /\ heap[r].ai_summary = None
         /\ heap[r].ai_note = SkippedNote(max_ai_papers)

\* C3 as claimed: the calls issued for the papers of one run never exceed
\* max_ai_papers, and a call is issued only for a paper of top_ai.
C3_CallBudget ==
  /\ TotalCalls <= max_ai_papers
  /\ \A r \in 1..NumPapers : calls[r] > 0 => r \in Range(top_ai)

\* C4 as claimed: after any sequence of runs, a paper whose ai_summary is None
\* has no ai_tags and its importance_score is the score without AI tags.
C4_NullSummaryNoTags ==
  Returned =>
    \A r \in 1..NumPapers :
      (Has(heap[r], "ai_summary") /\ heap[r].ai_summary = None) =>
        /\ Get(heap[r], "ai_tags", <<>>) = <<>>
        /\ heap[r].importance_score = _score_importance(Put(heap[r], "ai_tags", <<>>))

\* C5: with a collaborator that raises on every invocation no exception
\* escapes, and once the insights are built the output lists every input
\* paper once, every paper handed to enrichment has ai_summary None and the
\* score of its non-AI fields, and top_papers is not empty for a batch that
\* is not empty.
C5_AllCallsRaise ==
  client = "raises" =>
    /\ pc # "crashed"
    /\ pc = "done" =>
         /\ Len(processed) = Len(papers)
         /\ Range(processed) = Range(papers)
         /\ \A r \in attempted :
              /\ heap[r].ai_summary = None
              /\ heap[r].importance_score =
                   _score_importance(Put(heap[r], "ai_tags", <<>>))
         /\ papers # <<>> =>
              /\ Has(insights, "top_papers")
              /\ insights.top_papers # <<>>

\* C5 witness: the insights are built after a run in which a call was issued
\* for a paper and raised, and the narrative call was issued too
C5_Witness ==
  /\ client = "raises"
  /\ pc = "done"
  /\ narrative_calls = 1
  /\ \E r \in attempted : calls[r] = 1 /\ r \in failed

\* C6 as claimed: a paper whose enrichment failed ends with ai_summary None
\* and with ai_note or ai_error set.
C6_FailureLeavesNote ==
  Returned =>
    \A r \in failed :
      /\ heap[r].ai_summary = None
      /\ Has(heap[r], "ai_note") \/ Has(heap[r], "ai_error")

\* C7: what process_papers returns lists every input paper exactly once; every
\* paper either was handed to enrichment or took the skip branch, never both,
\* and one that took the skip branch has ai_summary None.
C7_Partition ==
  Returned =>
    /\ Len(processed) = Len(papers)
    /\ Range(processed) = Range(papers)
    /\ \A a, b \in 1..Len(processed) : processed[a] = processed[b] => a = b
    /\ attempted \cap skipped = {}
    /\ attempted \cup skipped = Range(papers)
    /\ \A r \in skipped : heap[r].ai_summary = None

\* C7 witness: process_papers returned a batch of which one paper was handed
\* to enrichment and another took the skip branch
C7_Witness ==
  /\ pc = "returned"
  /\ attempted # {}
  /\ skipped # {}

\* C8 as claimed: while the loop runs, no step changes whether a paper still
\* to be visited counts as selected ("in top_ai").
C8_NoReselection ==
  [][(pc = "loop" /\ pc' \in {"loop", "sleep"}) =>
       \A k \in (i + 1)..Len(papers_sorted) :
          InTopAi(heap', papers_sorted[k]) <=> InTopAi(heap, papers_sorted[k])]_vars

\* C9: a call (for a paper or for the narrative) is never issued while the
\* last call or sleep of the run was a call: a sleep lies between any two
\* successive calls.
C9_PauseBetweenCalls ==
  [][(TotalCalls' + narrative_calls' > TotalCalls + narrative_calls) =>
       last_event # "call"]_vars

\* C9 witness: a run with two calls for papers, one of which failed, and the
\* narrative call
C9_Witness ==
  /\ pc = "done"
  /\ TotalCalls = 2
  /\ narrative_calls = 1
  /\ failed # {}

\* C10: in one run at most one call is issued for a paper.
C10_NoRetry == \A r \in 1..NumPapers : calls[r] <= 1

\* C10 witness: a finished run in which the one call issued for a paper failed
C10_Witness ==
  /\ pc = "done"
  /\ \E r \in failed : calls[r] = 1

\* the text _score_importance searches for keywords
C11_Text(p) ==
  Lower(Get(p, "title", <<>>)) \o <<" ">> \o Lower(Get(p, "abstract", <<>>))

\* the rules of the formula: the topics a rule needs, the alternatives of
\* which it needs one (a topic or a tag; none when the set is empty), and its
\* bonus in half units
C11_Rules ==
  << [topics |-> {"nlp_finance", "asset_pricing"}, alt_tags |-> {}, alt_topics |-> {},
      bonus |-> 6],
     [topics |-> {"behavioral_finance"}, alt_tags |-> {"machine_learning"},
      alt_topics |-> {}, bonus |-> 4],
     [topics |-> {"tail_risk", "behavioral_finance"}, alt_tags |-> {}, alt_topics |-> {},
      bonus |-> 5],
     [topics |-> {"quant_trading"}, alt_tags |-> {"machine_learning"},
      alt_topics |-> {"nlp_finance"}, bonus |-> 5],
     [topics |-> {"gender_finance", "corporate_finance"}, alt_tags |-> {},
      alt_topics |-> {}, bonus |-> 4] >>

C11_Qualifies(rule, topics, tags) ==
  /\ rule.topics \subseteq topics
  /\ \/ rule.alt_tags = {} /\ rule.alt_topics = {}
     \/ rule.alt_tags \cap tags # {}
     \/ rule.alt_topics \cap topics # {}

RECURSIVE C11_RuleSum(_, _, _)
C11_RuleSum(n, topics, tags) ==
  IF n = 0 THEN 0
  ELSE C11_RuleSum(n - 1, topics, tags)
         + (IF C11_Qualifies(C11_Rules[n], topics, tags) THEN C11_Rules[n].bonus ELSE 0)

\* the boost of the first entry of the keyword table, from entry k on, whose
\* phrase occurs in text; 0 when none does
RECURSIVE C11_FirstBoost(_, _)
C11_FirstBoost(text, k) ==
  IF k > Len(kw_boosts) THEN 0
  ELSE IF Contains(kw_boosts[k].kw, text) THEN kw_boosts[k].boost
  ELSE C11_FirstBoost(text, k + 1)

C11_Reference(p) ==
  3 * Get(p, "relevance_score", 0)
    + C11_RuleSum(Len(C11_Rules), Range(Get(p, "matched_topics", <<>>)),
                  Range(Get(p, "ai_tags", <<>>)))
    + C11_FirstBoost(C11_Text(p), 1)
    + (IF Get(p, "source", "?") = "arXiv"
          /\ \E c \in Range(Get(p, "categories", <<>>)) : SubSeq(c, 1, 5) = QFinPrefix
        THEN 2 ELSE 0)

\* C11: the score _score_importance returns is relevance_score x 1.5, plus
\* the bonus of every rule that qualifies, plus the boost of the first keyword
\* of the table found in the text, plus 1.0 for an arXiv paper with a q-fin
\* category (all in half units).
C11_ScoreIsFormula ==
  s_pc = "scored" => s_score = C11_Reference(s_paper)

\* C11 witness: a scored arXiv paper for which all five rules qualify, a
\* keyword is found and a category is q-fin
C11_Witness ==
  /\ s_pc = "scored"
  /\ \A n \in 1..Len(C11_Rules) :
       C11_Qualifies(C11_Rules[n], Range(s_paper.matched_topics),
                     Range(Get(s_paper, "ai_tags", <<>>)))
  /\ C11_FirstBoost(C11_Text(s_paper), 1) > 0
  /\ s_paper.source = "arXiv"
  /\ s_paper.relevance_score = MaxRelevance
  /\ s_score = 3 * MaxRelevance + 24 + C11_FirstBoost(C11_Text(s_paper), 1) + 2

\* the entries of the keyword table whose phrase occurs in the text of p
C12_Hits(p) == {k \in 1..Len(kw_boosts) : Contains(kw_boosts[k].kw, C11_Text(p))}

\* the paper p with empty title and abstract
C12_NoText(p) == Put(Put(p, "title", <<>>), "abstract", <<>>)

\* C12: the keywords add to the score the boost of the first entry of the
\* table found in the text, and nothing when none is found: never the sum of
\* two entries, never more than the largest boost of the table. What they add
\* is the score less the score of the same paper with empty title and
\* abstract.
C12_FirstMatchWins ==
  s_pc = "scored" =>
    \A hits \in {C12_Hits(s_paper)} :
      \A part \in {s_score - _score_importance(C12_NoText(s_paper))} :
        /\ hits = {} => part = 0
        /\ hits # {} =>
             \E k \in hits : (\A h \in hits : k <= h) /\ part = kw_boosts[k].boost
        /\ \E m \in 1..Len(kw_boosts) : part <= kw_boosts[m].boost

\* C12 witness: a scored paper with three keywords in its text, the first of
\* which has a smaller boost than a later one
C12_Witness ==
  /\ s_pc = "scored"
  /\ Cardinality(C12_Hits(s_paper)) = 3
  /\ \E k, h \in C12_Hits(s_paper) :
       /\ \A m \in C12_Hits(s_paper) : k <= m
       /\ kw_boosts[k].boost < kw_boosts[h].boost
       /\ s_score = _score_importance(C12_NoText(s_paper)) + kw_boosts[k].boost

\* C13: with every other field fixed, a relevance_score larger by one never
\* gives a smaller importance_score (so, step by step, a larger
\* relevance_score never does), and the score of a paper whose
\* relevance_score is not negative is not negative.
C13_MonotoneInRelevance ==
  s_pc = "scored" =>
    /\ s_score >= 0
    /\ _score_importance(Put(s_paper, "relevance_score", s_paper.relevance_score + 1))
         >= s_score

\* C13 witness: a scored paper to which nothing but its relevance_score,
\* the largest, gives points
C13_Witness ==
  /\ s_pc = "scored"
  /\ s_paper.relevance_score = MaxRelevance
  /\ s_score = 3 * MaxRelevance
  /\ _score_importance(Put(s_paper, "relevance_score", 0)) = 0

\* C14: when process_papers has returned, the importance_score stored on
\* every paper of the output is what _score_importance yields for the paper's
\* final fields.
C14_StoredScoreIsCurrent ==
  Returned =>
    \A r \in Range(processed) :
      /\ Has(heap[r], "importance_score")
      /\ heap[r].importance_score = _score_importance(heap[r])

\* C14 witness: process_papers returned a batch of which one paper was
\* enriched with tags that add a bonus to its score and another was skipped
C14_Witness ==
  /\ pc = "returned"
  /\ skipped # {}
  /\ \E r \in attempted :
       /\ heap[r].ai_summary # None
       /\ Get(heap[r], "ai_tags", <<>>) # <<>>
       /\ heap[r].importance_score > _score_importance(Put(heap[r], "ai_tags", <<>>))

\* the source bonus of the claims: 1 when a category of the paper starts with
\* "q-fin", else 0
C15_SourceBonus(p) ==
  IF \E c \in Range(Get(p, "categories", <<>>)) : SubSeq(c, 1, 5) = QFinPrefix
    THEN 1 ELSE 0

\* C15 as claimed: every paper a relevance filter returns has
\* relevance_score = len(matched_topics) + source bonus.
C15_RelevanceIsTopicsPlusBonus ==
  f_pc = "returned" =>
    \A k \in 1..Len(f_out) :
      f_out[k].relevance_score = Len(f_out[k].matched_topics) + C15_SourceBonus(f_out[k])

\* a paper without the two fields a filter adds
C16_Original(p) == [k \in (DOMAIN p) \ {"matched_topics", "relevance_score"} |-> p[k]]

\* a paper with a matched topic or a source bonus
C16_Qualifies(p) == MatchedTopics(p) # <<>> \/ C15_SourceBonus(p) = 1

\* C16: a relevance filter returns exactly the papers of its input that have
\* a matched topic or a source bonus, each once, and every paper it returns
\* has relevance_score >= 1 and a matched_topics that is not empty.
C16_KeptIffRelevant ==
  f_pc = "returned" =>
    /\ \A k \in 1..Len(f_papers) :
         C16_Qualifies(f_papers[k])
           <=> \E j \in 1..Len(f_out) : C16_Original(f_out[j]) = C16_Original(f_papers[k])
    /\ Len(f_out) = Cardinality({k \in 1..Len(f_papers) : C16_Qualifies(f_papers[k])})
    /\ \A j \in 1..Len(f_out) :
         /\ f_out[j].relevance_score >= 1
         /\ f_out[j].matched_topics # <<>>

\* C16 witness: the arXiv filter returned, of two papers without a matched
\* topic, the one with a q-fin category and not the one without (whose
\* abstract is empty)
C16_Witness ==
  /\ f_pc = "returned"
  /\ f_source = "arXiv"
  /\ Len(f_papers) = 2
  /\ Len(f_out) = 1
  /\ \A k \in 1..2 : MatchedTopics(f_papers[k]) = <<>> /\ f_papers[k].abstract = <<>>
  /\ C15_SourceBonus(f_out[1]) = 1

\* C17: _deduplicate applied to what _deduplicate returned returns the same
\* list, with the same papers in the same order.
C17_DedupIdempotent ==
  (d_pass = 2 /\ DedupDone) => out = d_first

\* C17 witness: the second pass has finished and returned two papers, the
\* title of one of them longer than the key
C17_Witness ==
  /\ d_pass = 2
  /\ DedupDone
  /\ Len(out) = 2
  /\ \E a, b \in 1..2 : a # b /\ Len(out[a].title) > KeyLen /\ out[b].title # out[a].title

\* the position of paper r in the list given to generate_batch_insights
C18_Pos(r) == CHOOSE k \in 1..Len(processed) : processed[k] = r
C18_Score(r) == Get(heap[r], "importance_score", 0)

\* C18: top_papers holds min(5, n) different papers of the list given to
\* generate_batch_insights, in descending order of importance_score; of two
\* papers of equal score the one earlier in that list comes first; and no
\* paper left out has a higher score than one in top_papers, or an equal score
\* and an earlier place in the list.
C18_TopPapers ==
  (pc = "done" /\ processed # <<>>) =>
    \A top \in {insights.top_papers} :
      /\ Len(top) = Min(5, Len(processed))
      /\ Range(top) \subseteq Range(processed)
      /\ \A a, b \in 1..Len(top) :
           a < b => \/ C18_Score(top[a]) > C18_Score(top[b])
                    \/ /\ C18_Score(top[a]) = C18_Score(top[b])
                       /\ C18_Pos(top[a]) < C18_Pos(top[b])
      /\ \A r \in Range(processed) \ Range(top) : \A t \in Range(top) :
           \/ C18_Score(r) < C18_Score(t)
           \/ /\ C18_Score(r) = C18_Score(t)
              /\ C18_Pos(t) < C18_Pos(r)

\* C18 witness: top_papers of six papers, two of them of equal score and
\* different fields in top_papers, and the paper left out has the score of
\* the last paper of top_papers
C18_Witness ==
  /\ pc = "done"
  /\ Len(processed) = 6
  /\ Len(insights.top_papers) = 5
  /\ \E a, b \in 1..5 :
       /\ a < b
       /\ C18_Score(insights.top_papers[a]) = C18_Score(insights.top_papers[b])
       /\ heap[insights.top_papers[a]] # heap[insights.top_papers[b]]
  /\ \E r \in Range(processed) \ Range(insights.top_papers) :
       C18_Score(r) = C18_Score(insights.top_papers[5])

\* the sum of the values of the dict f over the keys S
RECURSIVE C19_Sum(_, _)
C19_Sum(f, S) ==
  IF S = {} THEN 0
  ELSE LET k == CHOOSE x \in S : TRUE IN f[k] + C19_Sum(f, S \ {k})

\* the papers of the list given to generate_batch_insights (positions) whose
\* matched_topics holds topic t
C19_PapersOfTopic(t) ==
  {k \in 1..Len(processed) : t \in Range(Get(heap[processed[k]], "matched_topics", <<>>))}

\* C19: for a set of papers that is not empty, topic_distribution gives, for
\* every topic some paper has, the number of papers that have it, and has no
\* other key; the values of source_distribution add up to total_papers, which
\* is the number of papers.
C19_CountsConserved ==
  (pc = "done" /\ processed # <<>>) =>
    /\ DOMAIN insights.topic_distribution
         = UNION {Range(Get(heap[processed[k]], "matched_topics", <<>>)) :
                    k \in 1..Len(processed)}
    /\ \A t \in DOMAIN insights.topic_distribution :
         insights.topic_distribution[t] = Cardinality(C19_PapersOfTopic(t))
    /\ C19_Sum(insights.source_distribution, DOMAIN insights.source_distribution)
         = insights.total_papers
    /\ insights.total_papers = Len(processed)

\* C19 witness: the insights of four or more papers from two sources, among
\* them a paper with two topics, one of which no other paper has
C19_Witness ==
  /\ pc = "done"
  /\ Len(processed) >= 4
  /\ Cardinality(DOMAIN insights.source_distribution) = 2
  /\ \E t \in DOMAIN insights.topic_distribution :
       /\ insights.topic_distribution[t] = 1
       /\ \E k \in C19_PapersOfTopic(t) : Len(heap[processed[k]].matched_topics) = 2
  /\ \E t \in DOMAIN insights.topic_distribution :
       insights.topic_distribution[t] = Len(processed)

\* C20 as claimed: method_distribution counts, for every tag, the papers with
\* a non-null ai_summary that carry it, so that a paper that was skipped or
\* whose enrichment failed adds to no count.
C20_MethodsOfEnrichedOnly ==
  (pc = "done" /\ processed # <<>>) =>
    \A t \in DOMAIN insights.method_distribution :
      insights.method_distribution[t] =
        Cardinality({k \in 1..Len(processed) :
                       /\ heap[processed[k]].ai_summary # None
                       /\ t \in Range(Get(heap[processed[k]], "ai_tags", <<>>))})

\* C21 as claimed: the narrative of a non-dry run on a non-empty list is
\* produced by exactly one request to the collaborator.
C21_ExactlyOneNarrativeCall ==
  (pc = "done" /\ processed # <<>>) => narrative_calls = 1

\* C21: generate_batch_insights sends at most one request for the narrative:
\* none for an empty list (the result is {}) and none when the client is
\* disabled, exactly one otherwise. For a non-empty list the narrative is
\* never None or empty, it is the fallback string whenever the client is
\* disabled or raises, else the fallback or the stripped text of the answer;
\* and the aggregation never ends in an exception.
C21_NarrativeBestEffort ==
  /\ pc # "crashed"
  /\ narrative_calls <= 1
  /\ pc = "done" =>
       IF processed = <<>>
         THEN insights = EmptyDict /\ narrative_calls = 0
         ELSE /\ narrative_calls = (IF client = "disabled" THEN 0 ELSE 1)
              /\ insights.narrative # None
              /\ insights.narrative \in
                   {Fallback} \cup {Strip(o.text) : o \in {x \in Outcomes : x.text # <<>>}}
              /\ client \in {"disabled", "raises"} => insights.narrative = Fallback
              /\ insights.total_papers = Len(processed)

\* C21 witness: the one narrative request of a raising collaborator has been
\* sent, and the insights of a non-empty list hold the fallback string
C21_Witness ==
  /\ pc = "done"
  /\ processed # <<>>
  /\ client = "raises"
  /\ narrative_calls = 1
  /\ insights.narrative = Fallback

\* C25: with a client that is disabled from the start no request is sent,
\* neither for a paper nor for the narrative; and when process_papers has
\* returned, the output lists every paper of the batch once and every paper
\* has ai_summary None, no ai_tags and the importance_score of its fields.
C25_DisabledClientNoCalls ==
  client = "disabled" =>
    /\ TotalCalls = 0
    /\ narrative_calls = 0
    /\ last_event # "call"
    /\ Returned =>
         /\ Len(processed) = Len(papers)
         /\ Range(processed) = Range(papers)
         /\ \A r \in Range(papers) :
              /\ Has(heap[r], "ai_summary") /\ heap[r].ai_summary = None
              /\ ~Has(heap[r], "ai_tags")
              /\ Has(heap[r], "importance_score")
              /\ heap[r].importance_score = _score_importance(heap[r])

\* C25 witness: the insights are built, with a disabled client, after a run
\* on two papers in which a paper with an abstract of 50 characters or more
\* was handed to enrichment
C25_Witness ==
  /\ client = "disabled"
  /\ pc = "done"
  /\ Len(papers) = 2
  /\ \E r \in attempted : Len(Get(heap[r], "abstract", <<>>)) >= MinAbstractLen

\* C26 as claimed: what process_papers returns is the batch sorted by
\* relevance_score, highest first, papers of equal relevance_score in their
\* input order; and the papers handed to enrichment are the first
\* max_ai_papers of that order, so that of two papers of equal
\* relevance_score at the boundary the one earlier in the input is selected
\* and the later one is not.
C26_ArrivalOrderedSelection ==
  Returned =>
    /\ processed = SortedDesc(heap, "relevance_score", papers)
    /\ attempted = Range(Prefix(processed, max_ai_papers))

\* the abstract is missing, empty or shorter than 50 characters
C28_Short(r) == Len(Get(heap[r], "abstract", <<>>)) < MinAbstractLen

\* C28 as claimed, for a client that is not disabled: when process_papers has
\* returned, no request was sent for a paper of top_ai with a short abstract,
\* that paper has ai_summary None and the note "Abstract too short", and the
\* requests sent for the batch are as many as the papers of top_ai with an
\* abstract of 50 characters or more.
C28_ShortAbstractKeepsSlot ==
  (Returned /\ client # "disabled") =>
    /\ \A r \in Range(top_ai) :
         C28_Short(r) =>
           /\ calls[r] = 0
           /\ heap[r].ai_summary = None
           /\ heap[r].ai_note = TooShortNote
    /\ TotalCalls = Cardinality({r \in Range(top_ai) : ~C28_Short(r)})

\* the papers whose enrichment succeeded in this run
C29_Enriched == {r \in attempted : heap[r].ai_summary # None}

\* C29: a paper whose enrichment succeeded in this run has an ai_tags list
\* that holds every one of its matched_topics and no tag twice; and the
\* method_distribution built from the batch counts each of these topic names
\* at least once.
C29_TagsIncludeTopics ==
  /\ \A r \in C29_Enriched :
       /\ Has(heap[r], "ai_tags")
       /\ Range(heap[r].matched_topics) \subseteq Range(heap[r].ai_tags)
       /\ \A a, b \in 1..Len(heap[r].ai_tags) :
            heap[r].ai_tags[a] = heap[r].ai_tags[b] => a = b
  /\ pc = "done" =>
       \A r \in C29_Enriched : \A t \in Range(heap[r].matched_topics) :
         /\ t \in DOMAIN insights.method_distribution
         /\ insights.method_distribution[t] >= 1

\* C29 witness: the insights are built after a run in which a paper was
\* enriched and got a method tag next to its topic
C29_Witness ==
  /\ pc = "done"
  /\ \E r \in C29_Enriched :
       /\ "machine_learning" \in Range(heap[r].ai_tags)
       /\ heap[r].matched_topics # <<>>
       /\ Len(heap[r].ai_tags) = Len(heap[r].matched_topics) + 1

\* the papers returned by the fetchers that did not raise, in block order
RECURSIVE C22_Returned(_)
C22_Returned(n) ==
  IF n = 0 THEN <<>>
  ELSE C22_Returned(n - 1) \o (IF fetched[n].raised THEN <<>> ELSE fetched[n].papers)

\* p is the paper q, possibly with the abstract of its page
C22_Same(p, q) ==
  \/ p = q
  \/ q.abstract = <<>> /\ p = Put(q, "abstract", DetailAbstract)

\* C22: no fetcher that raises aborts run_agent. After each block, all_papers
\* lists the papers returned by the fetchers that did not raise, in the order
\* NBER, SSRN, arXiv and in the order of each list, and nothing for a fetcher
\* that raised; no exception leaves run_agent or the aggregation, whose
\* positions are then those from which the run goes on to the report.
C22_FailingSourceIsSkipped ==
  /\ r_pc # "aborted"
  /\ pc # "crashed"
  /\ r_pc \in {"ssrn", "arxiv", "fallback"} =>
       /\ \A k \in 1..Len(fetched) : fetched[k].source = Sources[k]
       /\ \E expected \in {C22_Returned(Len(fetched))} :
            /\ Len(all_papers) = Len(expected)
            /\ \A k \in 1..Len(expected) : C22_Same(all_papers[k], expected[k])
  /\ r_pc = "fallback" => Len(fetched) = Len(Sources)

\* C22 witness: the report is written with the papers of arXiv, deduplicated,
\* after the NBER fetcher raised
C22_Witness ==
  /\ r_pc = "reported"
  /\ DedupDone
  /\ Len(out) = Len(fetched[3].papers)
  /\ fetched[1].raised
  /\ ~fetched[3].raised
  /\ fetched[3].papers # <<>>
  /\ \E k \in 1..Len(report.papers) : report.papers[k].source = "arXiv"

\* C23 as claimed: when no fetcher returned a paper, the list given to
\* _deduplicate is the demo dataset; and in every run the list given to the
\* aggregation (generate_batch_insights or _build_insights) and the list
\* given to the report are not empty.
C23_NeverEmptyReport ==
  /\ (r_pc = "dedup" /\ C22_Returned(Len(fetched)) = <<>>) => d_papers = _demo_papers
  /\ (r_pc = "ai" /\ pc \in {"returned", "done"}) => processed # <<>>
  /\ r_pc = "save" => all_papers # <<>>
  /\ r_pc = "reported" => report.papers # <<>>

\* the titles of a list of papers; after _deduplicate a title names one paper
C27_Titles(ps) == {ps[k].title : k \in 1..Len(ps)}

\* the block of run_agent a fetched paper comes from
C27_Block(p) == CHOOSE k \in 1..Len(Sources) : Sources[k] = p.source

\* C27: the deduplicated list keeps the arrival order NBER, SSRN, arXiv of the
\* fetched papers. In a non-dry run process_papers is given its first 30
\* papers and no other: no paper beyond them is handed to enrichment, takes
\* the skip branch or gets a request; the snapshot and the report are given
\* exactly these papers, whatever the relevance_score of the others, and
\* total_papers is at most 30. In a dry run the snapshot and the report are
\* given the whole deduplicated list and total_papers is its length.
C27_ReportLimit ==
  /\ (r_pc \in {"ai", "save", "reported"} /\ d_papers # _demo_papers) =>
       \A a, b \in 1..Len(out) : a <= b => C27_Block(out[a]) <= C27_Block(out[b])
  /\ (r_pc \in {"ai", "reported"} /\ ~dry_run) =>
       /\ papers = Prefix(Refs(Len(out)), MaxPapersInReport)
       /\ \A k \in 1..Len(papers) : heap[k].title = out[k].title
       /\ attempted \cup skipped \subseteq Range(papers)
       /\ \A r \in DOMAIN heap : r > MaxPapersInReport => calls[r] = 0 /\ heap[r] = out[r]
       /\ Get(insights, "total_papers", 0) <= MaxPapersInReport
  /\ (r_pc = "reported" /\ ~dry_run) =>
       /\ Len(report.papers) = Min(Len(out), MaxPapersInReport)
       /\ C27_Titles(report.papers) = C27_Titles(Prefix(out, MaxPapersInReport))
       /\ report.snapshot.papers = report.papers
       /\ Range(report.cards) \subseteq Range(report.papers)
  /\ (r_pc = "reported" /\ dry_run) =>
       /\ report.papers = out
       /\ report.snapshot.papers = out
       /\ report.insights.total_papers = Len(out)
       /\ report.snapshot.insights.total_papers = Len(out)

\* C27 witness: the report of a non-dry run is written from 30 papers after
\* the deduplication left more, and a paper left out has a higher
\* relevance_score than every paper reported
C27_Witness ==
  /\ r_pc = "reported"
  /\ ~dry_run
  /\ Len(out) > MaxPapersInReport
  /\ Len(report.papers) = MaxPapersInReport
  /\ report.insights.total_papers = MaxPapersInReport
  /\ \A k \in 1..Len(report.papers) :
       report.papers[k].relevance_score < out[Len(out)].relevance_score

\* C30: in a dry run no request is sent, for a paper or for the narrative,
\* and process_papers is never entered; once the insights are built the
\* papers are as _deduplicate returned them, none with ai_summary, ai_tags or
\* importance_score, the narrative is the demo-mode string, and top_papers
\* lists the first five papers of the deduplicated list, in list order.
C30_DryRunLeavesPapers ==
  dry_run =>
    /\ narrative_calls = 0
    /\ last_event # "call"
    /\ \A r \in DOMAIN calls : calls[r] = 0
    /\ pc = "idle" /\ attempted = {} /\ skipped = {}
    /\ r_pc \in {"save", "reported"} =>
         /\ all_papers = out
         /\ heap = out
         /\ \A k \in 1..Len(out) :
              /\ out[k] \in Range(d_papers)
              /\ ~Has(out[k], "ai_summary")
              /\ ~Has(out[k], "ai_tags")
              /\ ~Has(out[k], "importance_score")
         /\ insights.narrative = DemoNarrative
         /\ insights.top_papers = Prefix(Refs(Len(out)), TopPapersLen)
    /\ r_pc = "reported" =>
         /\ report.papers = out
         /\ report.insights = insights

\* C30 witness: the report of a dry run is written from more than five
\* papers, one of which, beyond the fifth, has a higher relevance_score than
\* the first
C30_Witness ==
  /\ dry_run
  /\ r_pc = "reported"
  /\ Len(out) > TopPapersLen
  /\ \E k \in (TopPapersLen + 1)..Len(out) :
       out[k].relevance_score > out[1].relevance_score
  /\ Len(report.insights.top_papers) = TopPapersLen

\* the topics of the paper at position r of the input
C24_Topics(r) == Range(Get(g_papers[r], "matched_topics", <<>>))

\* the papers selected among the first n of the walk that match topic t
C24_SelectedWith(t, n) ==
  {k \in 1..n : g_sorted[k] \in selected_ids /\ t \in C24_Topics(g_sorted[k])}

\* the selection rule and its result, common to the claim and to its
\* amendment: a paper visited is selected exactly if, for one of its topics,
\* fewer than K of the papers selected before it match that topic; and when
\* the walk is over, every topic is matched by at least min(K, number of
\* input papers matching it) selected papers.
C24_RuleAndCoverage ==
  /\ \A k \in 1..(g_i - 1) :
       g_sorted[k] \in selected_ids <=>
         \E t \in C24_Topics(g_sorted[k]) :
           Cardinality(C24_SelectedWith(t, k - 1)) < PerTopic
  /\ selected_ids \subseteq {g_sorted[k] : k \in 1..(g_i - 1)}
  /\ SelectDone =>
       \A t \in UNION {C24_Topics(r) : r \in 1..Len(g_papers)} :
         Cardinality(C24_SelectedWith(t, Len(g_sorted))) >=
           Min(PerTopic, Cardinality({r \in 1..Len(g_papers) : t \in C24_Topics(r)}))

\* C24 as claimed: the rule and the coverage above, and the counter of a topic
\* is incremented for every selected paper that matches it, so that it counts
\* the selected papers matching the topic.
C24_CounterOfEveryTopic ==
  /\ C24_RuleAndCoverage
  /\ \A t \in UNION {C24_Topics(r) : r \in 1..Len(g_papers)} :
       Get(topic_counts, t, 0) = Cardinality(C24_SelectedWith(t, g_i - 1))

\* C24 as amended: the rule and the coverage above, and the counter of a topic
\* is incremented for a selected paper only while it is below K, so that it
\* is the number of selected papers matching the topic, capped at K.
C24_CounterBelowLimit ==
  /\ C24_RuleAndCoverage
  /\ \A t \in UNION {C24_Topics(r) : r \in 1..Len(g_papers)} :
       Get(topic_counts, t, 0) = Min(PerTopic, Cardinality(C24_SelectedWith(t, g_i - 1)))

\* C24 witness: the walk is over; three selected papers match a topic, the
\* last of them selected for its other topic, and a paper of that topic alone
\* was not selected
C24_Witness ==
  /\ SelectDone
  /\ \E t \in DOMAIN topic_counts :
       /\ Cardinality(C24_SelectedWith(t, Len(g_sorted))) > PerTopic
       /\ topic_counts[t] = PerTopic
       /\ \E r \in 1..Len(g_papers) : C24_Topics(r) = {t} /\ r \notin selected_ids

====
